---- MODULE Spec2Model ----
(***************************************************************************)
(* Model of the metadata layer of github.com/drswork/image: the sub-codec  *)
(* registry (package metadata), the lazily decoded EXIF/XMP/ICC fields of  *)
(* the png, jpeg and gif Metadata structs, the PNG chunk handlers and the  *)
(* JPEG APPn segment handlers that fill them.                              *)
(*                                                                         *)
(* Go values are modelled as follows.  A pointer or slice that may be nil  *)
(* is None (nil) or Some(x); a byte slice is a sequence of numbers 0..255; *)
(* a string is the sequence of its bytes; an error is a string, NilErr     *)
(* being the nil error.  Offsets are 0-based as in the source.             *)
(***************************************************************************)
EXTENDS Integers, Sequences, FiniteSets, TLC

None == <<>>
Some(x) == <<x>>
NilErr == "nil"

(* ---- bounds of the model ---- *)
\* records handled in one walk of the field life-cycle specification
MaxChunks == 2
\* APP2 segments handled in one walk of the JPEG specification
MaxSegments == 3
\* largest segment index / declared segment count fed to processApp2
MaxIndex == 3
MaxCount == 3
\* APPn segments handled in one walk of the extension-store specification
MaxAppSegments == 3
\* application extension blocks handled in one walk of the GIF specification
MaxBlocks == 3
\* formats registered with package image
MaxFormats == 3
\* calls made on one Deferred image
MaxCalls == 3
\* JFIF segments handled in one walk of the thumbnail specification
MaxJfif == 1
\* tIME chunks handled in one walk of the timestamp specification
MaxTimes == 1
\* text entries of a Metadata that is encoded and decoded
MaxEntries == 1
\* text and profile chunks handled in one walk of the separator specification
MaxTexts == 1
\* longest payload of those chunks
MaxBlob == 5
\* chunks handled in one walk of the damage-tolerance specification
MaxDamaged == 2
\* chunks handled in one walk of the singular-record specification
MaxSingular == 2
\* records met in one walk of the raw-field specification
MaxProfiles == 2
\* APPn segments met in one walk of the payload-bounds specification
MaxBoundsSegments == 1
\* extension blocks met in one walk of the comment specification
MaxCommentBlocks == 2
\* calls of RegisterFormatExtended each registering goroutine makes
MaxRegistrations == 2

(* ---- byte-slice helpers (package bytes and Go slicing) ---- *)
\* bytes.IndexByte: 0-based offset of the first c in b, -1 when absent
IndexByte(b, c) ==
  IF \E i \in 1..Len(b) : b[i] = c
  THEN (CHOOSE i \in 1..Len(b) : b[i] = c /\ \A j \in 1..(i - 1) : b[j] # c) - 1
  ELSE -1

\* b[lo:hi] with 0-based bounds; callers check the bounds (Go panics otherwise)
Slice(b, lo, hi) == SubSeq(b, lo + 1, hi)

\* b[i] with a 0-based index
At(b, i) == b[i + 1]

\* append(s, t...) where s may be nil: appending nothing to nil stays nil
GoAppend(s, t) ==
  IF s = None THEN (IF t = <<>> THEN None ELSE Some(t)) ELSE Some(s[1] \o t)

\* the bytes of a possibly nil slice
Bytes(s) == IF s = None THEN <<>> ELSE s[1]

(* ---- constants of the source ---- *)
\* "ICC_PROFILE"
iccMetadata == <<73, 67, 67, 95, 80, 82, 79, 70, 73, 76, 69>>
app2Marker == 226

(* ---- the sub-codec functions a plug-in may register ---- *)
NoFn == "none"
DecoderFns == {"decA", "decB", "decFail", "decNil"}
EncoderFns == {"encA", "encB"}
Kinds == {"exif", "xmp", "icc"}

\* What a registered decoder returns for raw bytes b: decA and decB succeed
\* with a value of their own, decFail returns an error, decNil returns
\* (nil, nil).
ApplyDecoder(fn, b) ==
  CASE fn = "decFail" -> [val |-> None, err |-> "decode failed"]
    [] fn = "decNil" -> [val |-> None, err |-> NilErr]
    [] OTHER -> [val |-> Some([by |-> fn, data |-> b]), err |-> NilErr]

\* What a registered encoder returns for a decoded value v.
ApplyEncoder(fn, v) == [val |-> Some([by |-> fn, data |-> v.data]), err |-> NilErr]

VARIABLES
  \* package metadata: the registered sub-codec functions
  exifDecoder, xmpDecoder, iccDecoder, exifEncoder, xmpEncoder, iccEncoder,
  \* one Metadata struct (of the format named by format) and its decoder
  format,
  exif, exifDecodeErr, rawExif,
  xmp, xmpDecodeErr, rawXmp,
  icc, iccDecodeErr, rawIcc, iccName,
  iccSegmentCount, iccSegmentsSeen,
  appX, Text, Gamma,
  \* jpeg: what the APP0 (JFIF) and APP14 (Adobe) handlers record
  jfif, Version, Units, XDensity, YDensity, XThumbnail, YThumbnail, Thumbnail,
  adobeTransformValid, adobeTransform,
  \* gif: comments, application extensions and the loop count
  Comments, Extensions, loopCount,
  \* observers: the APPn segments and the application extension blocks the
  \* handlers have been given and have returned from without error
  arrived, blocks,
  \* the bytes an encode call has written to its output stream
  out,
  \* package image: the registered formats, the reader handed to
  \* DecodeWithOptions, the format it sniffed and what the entrypoint read
  atomicFormats, stream, sniffed, decoded,
  \* the functions of the sniffed format an entrypoint has invoked, in order
  invocations,
  \* the option list the entrypoint handed to the format's decode function
  options,
  \* package png: a Deferred image and the number of times its cached
  \* chunks have been parsed
  dfr, parsed,
  \* package png: the timestamp and chromaticities of the Metadata, and the
  \* Metadata that was handed to the encoder
  LastModified, Chroma, orig,
  \* package gif: the number of stream bytes the reader has taken since the record it reads began
  readOff,
  \* package image under concurrent callers: the goroutine that holds formatsMu, each goroutine's position and its local variable formats, and the calls of RegisterFormatExtended each has completed
  formatsMu, pc, loaded, registered,
  \* position of the decode call: "walk", "done", "failed", "panic"
  phase, nrec,
  \* observers: what the last call returned, the invocation counter of the
  \* counting decoder stub, the outcome of the first accessor call since the
  \* field was last written, the APP2 ICC segments fed so far, and the
  \* function last passed to each Register call
  ret, calls, firstRet, fed, lastReg

regVars == <<exifDecoder, xmpDecoder, iccDecoder, exifEncoder, xmpEncoder, iccEncoder, lastReg>>
exifVars == <<exif, exifDecodeErr, rawExif>>
xmpVars == <<xmp, xmpDecodeErr, rawXmp>>
iccVars == <<icc, iccDecodeErr, rawIcc>>
segVars == <<iccSegmentCount, iccSegmentsSeen, fed>>
structVars == <<iccName, appX, Text, Gamma>>
obsVars == <<calls, firstRet>>
app0Vars == <<jfif, Version, Units, XDensity, YDensity, XThumbnail, YThumbnail, Thumbnail>>
app14Vars == <<adobeTransformValid, adobeTransform>>
gifVars == <<Comments, Extensions, loopCount, blocks>>
ioVars == <<out>>
imgVars == <<atomicFormats, stream, sniffed, decoded, invocations, options>>
dfrVars == <<dfr, parsed>>
pngVars == <<LastModified, Chroma, orig>>
streamVars == <<readOff>>
goVars == <<formatsMu, pc, loaded, registered>>
extVars == <<app0Vars, app14Vars, arrived, gifVars, ioVars, imgVars, dfrVars, pngVars, streamVars, goVars>>
vars == <<regVars, format, exifVars, xmpVars, iccVars, segVars, structVars,
          phase, nrec, ret, obsVars, extVars>>

\* the record every call leaves in ret
Ret(op, kind, val, err, invoked, pre, again) ==
  [op |-> op, kind |-> kind, val |-> val, err |-> err, invoked |-> invoked,
   pre |-> pre, again |-> again]

NoRet == Ret("none", "none", None, NilErr, FALSE, "none", FALSE)

(* ---- package metadata: registry ---- *)
RegisterEXIFDecoder(d) ==
  /\ exifDecoder' = d
  /\ lastReg' = [lastReg EXCEPT !.exifDecoder = d]
  /\ UNCHANGED <<xmpDecoder, iccDecoder, exifEncoder, xmpEncoder, iccEncoder>>
  /\ UNCHANGED <<format, extVars, exifVars, xmpVars, iccVars, segVars, structVars, phase, nrec, ret, obsVars>>

RegisterXMPDecoder(d) ==
  /\ xmpDecoder' = d
  /\ lastReg' = [lastReg EXCEPT !.xmpDecoder = d]
  /\ UNCHANGED <<exifDecoder, iccDecoder, exifEncoder, xmpEncoder, iccEncoder>>
  /\ UNCHANGED <<format, extVars, exifVars, xmpVars, iccVars, segVars, structVars, phase, nrec, ret, obsVars>>

RegisterICCDecoder_first(d) ==
  /\ iccDecoder' = IF iccDecoder = NoFn THEN d ELSE iccDecoder
  /\ lastReg' = [lastReg EXCEPT !.iccDecoder = d]
  /\ UNCHANGED <<exifDecoder, xmpDecoder, exifEncoder, xmpEncoder, iccEncoder>>
  /\ UNCHANGED <<format, extVars, exifVars, xmpVars, iccVars, segVars, structVars, phase, nrec, ret, obsVars>>

RegisterICCDecoder(d) ==
  /\ iccDecoder' = d
  /\ lastReg' = [lastReg EXCEPT !.iccDecoder = d]
  /\ UNCHANGED <<exifDecoder, xmpDecoder, exifEncoder, xmpEncoder, iccEncoder>>
  /\ UNCHANGED <<format, extVars, exifVars, xmpVars, iccVars, segVars, structVars, phase, nrec, ret, obsVars>>

RegisterEXIFEncoder(e) ==
  /\ exifEncoder' = e
  /\ lastReg' = [lastReg EXCEPT !.exifEncoder = e]
  /\ UNCHANGED <<exifDecoder, xmpDecoder, iccDecoder, xmpEncoder, iccEncoder>>
  /\ UNCHANGED <<format, extVars, exifVars, xmpVars, iccVars, segVars, structVars, phase, nrec, ret, obsVars>>

RegisterXMPEncoder(e) ==
  /\ xmpEncoder' = e
  /\ lastReg' = [lastReg EXCEPT !.xmpEncoder = e]
  /\ UNCHANGED <<exifDecoder, xmpDecoder, iccDecoder, exifEncoder, iccEncoder>>
  /\ UNCHANGED <<format, extVars, exifVars, xmpVars, iccVars, segVars, structVars, phase, nrec, ret, obsVars>>

RegisterICCEncoder(e) ==
  /\ iccEncoder' = e
  /\ lastReg' = [lastReg EXCEPT !.iccEncoder = e]
  /\ UNCHANGED <<exifDecoder, xmpDecoder, iccDecoder, exifEncoder, xmpEncoder>>
  /\ UNCHANGED <<format, extVars, exifVars, xmpVars, iccVars, segVars, structVars, phase, nrec, ret, obsVars>>

\* result of a sub-codec call: value, error, and whether a registered
\* function was invoked
CodecResult(r, invoked) == [val |-> r.val, err |-> r.err, invoked |-> invoked]

DecodeEXIF(b) ==
  IF exifDecoder = NoFn
  THEN [val |-> None, err |-> "No registered EXIF decoder", invoked |-> FALSE]
  ELSE CodecResult(ApplyDecoder(exifDecoder, b), TRUE)

DecodeXMP(b) ==
  IF xmpDecoder = NoFn
  THEN [val |-> None, err |-> "No registered XMP decoder", invoked |-> FALSE]
  ELSE CodecResult(ApplyDecoder(xmpDecoder, b), TRUE)

DecodeICC_silent(b) ==
  IF iccDecoder = NoFn
  THEN [val |-> None, err |-> NilErr, invoked |-> FALSE]
  ELSE CodecResult(ApplyDecoder(iccDecoder, b), TRUE)

DecodeICC(b) ==
  IF iccDecoder = NoFn
  THEN [val |-> None, err |-> "No registered ICC decoder", invoked |-> FALSE]
  ELSE CodecResult(ApplyDecoder(iccDecoder, b), TRUE)

EncodeEXIF(v) ==
  IF exifEncoder = NoFn
  THEN [val |-> None, err |-> "No registered EXIF encoder", invoked |-> FALSE]
  ELSE CodecResult(ApplyEncoder(exifEncoder, v), TRUE)

EncodeXMP(v) ==
  IF xmpEncoder = NoFn
  THEN [val |-> None, err |-> "No registered XMP encoder", invoked |-> FALSE]
  ELSE CodecResult(ApplyEncoder(xmpEncoder, v), TRUE)

EncodeICC(v) ==
  IF iccEncoder = NoFn
  THEN [val |-> None, err |-> "No registered ICC encoder", invoked |-> FALSE]
  ELSE CodecResult(ApplyEncoder(iccEncoder, v), TRUE)

NoDecoderErr(kind) ==
  CASE kind = "exif" -> "No registered EXIF decoder"
    [] kind = "xmp" -> "No registered XMP decoder"
    [] kind = "icc" -> "No registered ICC decoder"

DecoderOf(kind) ==
  CASE kind = "exif" -> exifDecoder
    [] kind = "xmp" -> xmpDecoder
    [] kind = "icc" -> iccDecoder

(* ---- the lazily decoded fields of a Metadata ---- *)
\* The four states of the spec's Deferred Field, read off the three struct
\* fields in the order the accessor tests them.
FieldState(v, e, r) ==
  IF v # None THEN "Decoded"
  ELSE IF e # NilErr THEN "Failed"
  ELSE IF r # None THEN "Raw"
  ELSE "Absent"

ValOf(k) == CASE k = "exif" -> exif [] k = "xmp" -> xmp [] k = "icc" -> icc
ErrOf(k) ==
  CASE k = "exif" -> exifDecodeErr [] k = "xmp" -> xmpDecodeErr [] k = "icc" -> iccDecodeErr
RawOf(k) == CASE k = "exif" -> rawExif [] k = "xmp" -> rawXmp [] k = "icc" -> rawIcc
StateOf(k) == FieldState(ValOf(k), ErrOf(k), RawOf(k))

\* result of an accessor: the three struct fields after the call (val, err,
\* raw), the returned pair (rv, rerr) and whether a decoder ran
Access(v, e, r, rv, rerr, invoked) ==
  [val |-> v, err |-> e, raw |-> r, rv |-> rv, rerr |-> rerr, invoked |-> invoked]

\* variant: a successful decode keeps the raw bytes
Accessor_keepRaw(v, e, r, res) ==
  IF v # None THEN Access(v, e, r, v, NilErr, FALSE)
  ELSE IF e # NilErr THEN Access(v, e, r, None, e, FALSE)
  ELSE IF r # None
    THEN IF res.err # NilErr
         THEN Access(v, res.err, r, None, res.err, res.invoked)
         ELSE Access(res.val, e, r, res.val, NilErr, res.invoked)
  ELSE Access(v, e, r, None, NilErr, FALSE)

\* variant: a failed decode is not cached
Accessor_retry(v, e, r, res) ==
  IF v # None THEN Access(v, e, r, v, NilErr, FALSE)
  ELSE IF r # None
    THEN IF res.err # NilErr
         THEN Access(v, res.err, r, None, res.err, res.invoked)
         ELSE Access(res.val, NilErr, None, res.val, NilErr, res.invoked)
  ELSE IF e # NilErr THEN Access(v, e, r, None, e, FALSE)
  ELSE Access(v, e, r, None, NilErr, FALSE)

\* variant: a decoded value is returned but not cached
Accessor_noCache(v, e, r, res) ==
  IF v # None THEN Access(v, e, r, v, NilErr, FALSE)
  ELSE IF e # NilErr THEN Access(v, e, r, None, e, FALSE)
  ELSE IF r # None
    THEN IF res.err # NilErr
         THEN Access(v, res.err, r, None, res.err, res.invoked)
         ELSE Access(v, e, r, res.val, NilErr, res.invoked)
  ELSE Access(v, e, r, None, NilErr, FALSE)

\* variant: a field without raw bytes is decoded from an empty buffer
Accessor_decodeAbsent(v, e, r, res) ==
  IF v # None THEN Access(v, e, r, v, NilErr, FALSE)
  ELSE IF e # NilErr THEN Access(v, e, r, None, e, FALSE)
  ELSE IF res.err # NilErr
       THEN Access(v, res.err, r, None, res.err, res.invoked)
       ELSE Access(res.val, e, None, res.val, NilErr, res.invoked)

\* Body shared by Metadata.EXIF, Metadata.XMP and Metadata.ICC of the three
\* formats; res is the result of metadata.DecodeXXX on the raw bytes.
Accessor(v, e, r, res) ==
  IF v # None THEN Access(v, e, r, v, NilErr, FALSE)
  ELSE IF e # NilErr THEN Access(v, e, r, None, e, FALSE)
  ELSE IF r # None
    THEN IF res.err # NilErr
         THEN Access(v, res.err, r, None, res.err, res.invoked)
         ELSE Access(res.val, e, None, res.val, NilErr, res.invoked)
  ELSE Access(v, e, r, None, NilErr, FALSE)

\* observers updated by an accessor call on kind k with result a
Observe(k, a, pre) ==
  /\ ret' = Ret("get", k, a.rv, a.rerr, a.invoked, pre, firstRet[k] # None)
  /\ calls' = [calls EXCEPT ![k] = @ + (IF a.invoked THEN 1 ELSE 0)]
  /\ firstRet' = IF firstRet[k] = None
                 THEN [firstRet EXCEPT ![k] = Some([val |-> a.rv, err |-> a.rerr])]
                 ELSE firstRet

HasKind(k) ==
  CASE format = "png" -> TRUE
    [] format = "jpeg" -> TRUE
    [] format = "gif" -> k = "xmp"
    [] OTHER -> FALSE

EXIF ==
  /\ phase = "done" /\ HasKind("exif")
  /\ LET a == Accessor(exif, exifDecodeErr, rawExif, DecodeEXIF(Bytes(rawExif)))
     IN /\ exif' = a.val /\ exifDecodeErr' = a.err /\ rawExif' = a.raw
        /\ Observe("exif", a, FieldState(exif, exifDecodeErr, rawExif))
  /\ UNCHANGED <<regVars, format, extVars, xmpVars, iccVars, segVars, structVars, phase, nrec>>

XMP ==
  /\ phase = "done" /\ HasKind("xmp")
  /\ LET a == Accessor(xmp, xmpDecodeErr, rawXmp, DecodeXMP(Bytes(rawXmp)))
     IN /\ xmp' = a.val /\ xmpDecodeErr' = a.err /\ rawXmp' = a.raw
        /\ Observe("xmp", a, FieldState(xmp, xmpDecodeErr, rawXmp))
  /\ UNCHANGED <<regVars, format, extVars, exifVars, iccVars, segVars, structVars, phase, nrec>>

ICC ==
  /\ phase = "done" /\ HasKind("icc")
  /\ LET a == Accessor(icc, iccDecodeErr, rawIcc, DecodeICC(Bytes(rawIcc)))
     IN /\ icc' = a.val /\ iccDecodeErr' = a.err /\ rawIcc' = a.raw
        /\ Observe("icc", a, FieldState(icc, iccDecodeErr, rawIcc))
  /\ UNCHANGED <<regVars, format, extVars, exifVars, xmpVars, segVars, structVars, phase, nrec>>

\* observers updated by a Set call on kind k
ObserveSet(k, v, pre) ==
  /\ ret' = Ret("set", k, v, NilErr, FALSE, pre, FALSE)
  /\ firstRet' = [firstRet EXCEPT ![k] = None]
  /\ UNCHANGED calls

SetEXIF(e) ==
  /\ phase = "done" /\ HasKind("exif")
  /\ exif' = e /\ exifDecodeErr' = NilErr /\ rawExif' = None
  /\ ObserveSet("exif", e, FieldState(exif, exifDecodeErr, rawExif))
  /\ UNCHANGED <<regVars, format, extVars, xmpVars, iccVars, segVars, structVars, phase, nrec>>

SetXMP(x) ==
  /\ phase = "done" /\ HasKind("xmp")
  /\ xmp' = x /\ xmpDecodeErr' = NilErr /\ rawXmp' = None
  /\ ObserveSet("xmp", x, FieldState(xmp, xmpDecodeErr, rawXmp))
  /\ UNCHANGED <<regVars, format, extVars, exifVars, iccVars, segVars, structVars, phase, nrec>>

SetIcc_keepErr(i) ==
  /\ phase = "done" /\ HasKind("icc")
  /\ icc' = i /\ iccDecodeErr' = iccDecodeErr /\ rawIcc' = None
  /\ ObserveSet("icc", i, FieldState(icc, iccDecodeErr, rawIcc))
  /\ UNCHANGED <<regVars, format, extVars, exifVars, xmpVars, segVars, structVars, phase, nrec>>

SetIcc(i) ==
  /\ phase = "done" /\ HasKind("icc")
  /\ icc' = i /\ iccDecodeErr' = NilErr /\ rawIcc' = None
  /\ ObserveSet("icc", i, FieldState(icc, iccDecodeErr, rawIcc))
  /\ UNCHANGED <<regVars, format, extVars, exifVars, xmpVars, segVars, structVars, phase, nrec>>

(* ---- the walk of one decode call ---- *)
\* A handler returned err: the walker goes on with the next record when err
\* is nil and fails otherwise.
Walked(op, kind, err) ==
  /\ ret' = Ret(op, kind, None, err, FALSE, "none", FALSE)
  /\ phase' = IF err = NilErr THEN "walk" ELSE "failed"
  /\ nrec' = nrec + 1

\* A handler panicked (index or slice bounds out of range).
Panicked(op, kind) ==
  /\ ret' = Ret(op, kind, None, "panic", FALSE, "none", FALSE)
  /\ phase' = "panic"
  /\ nrec' = nrec + 1

\* decoder.verifyChecksum: compares the stored CRC with the computed one
verifyChecksum(crcOk) == IF crcOk THEN NilErr ELSE "invalid checksum"

\* End of stream: the Metadata is handed to the caller.
EndWalk ==
  /\ phase = "walk"
  /\ phase' = "done"
  /\ ret' = Ret("decode", "none", None, NilErr, FALSE, "none", FALSE)
  /\ UNCHANGED <<regVars, format, extVars, exifVars, xmpVars, iccVars, segVars, structVars, nrec, obsVars>>

(* ---- package png: chunk handlers ---- *)
(* compress/zlib and compress/flate, as the handlers call them *)
\* the CMF byte of a zlib header: deflate with a 32K window
ZlibHeader == 120

\* 2^n
RECURSIVE Pow2(_)
Pow2(n) == IF n = 0 THEN 1 ELSE 2 * Pow2(n - 1)

\* the bit at 0-based bit offset p of s, the low bit of a byte first
BitAt(s, p) == (s[(p \div 8) + 1] \div Pow2(p % 8)) % 2

\* the n bits from bit offset p as a number, the first bit lowest
RECURSIVE BitsAt(_, _, _)
BitsAt(s, p, n) == IF n = 0 THEN 0 ELSE BitAt(s, p) + 2 * BitsAt(s, p + 1, n - 1)

\* what one step of the decompressor gives: an error or nil, the bit offset
\* after it, and a value (a symbol, or the bytes written so far)
Flate(err, pos, val) == [err |-> err, pos |-> pos, val |-> val]

\* the code lengths of the fixed literal/length alphabet
FixedLengths ==
  [i \in 1..288 |-> IF i <= 144 THEN 8 ELSE IF i <= 256 THEN 9 ELSE IF i <= 280 THEN 7 ELSE 8]

\* the code lengths of the fixed distance alphabet: 5 bits each
FixedDistLengths == [i \in 1..30 |-> 5]

\* the longest code of the lengths L
MaxLength(L) == IF Len(L) = 0 THEN 0 ELSE CHOOSE m \in 0..15 :
                   (\A i \in 1..Len(L) : L[i] <= m) /\ (m = 0 \/ \E i \in 1..Len(L) : L[i] = m)

\* the shortest code of the lengths L; 0 when no symbol has a code
MinLength(L) == IF MaxLength(L) = 0 THEN 0 ELSE CHOOSE m \in 1..15 :
                   (\E i \in 1..Len(L) : L[i] = m) /\ (\A i \in 1..Len(L) : L[i] = 0 \/ L[i] >= m)

\* the number of codes of length l
CountOf(L, l) == Cardinality({i \in 1..Len(L) : L[i] = l})

\* the 2^max possible bit sequences the codes of L take up
RECURSIVE Assigned(_, _)
Assigned(L, l) ==
  IF l = 0 THEN 0 ELSE 2 * Assigned(L, l - 1) + CountOf(L, l)

\* huffmanDecoder.init: an empty code is accepted; any other code must be
\* complete, or be the single code of length one
huffInit(L) ==
  LET max == MaxLength(L) IN
  max = 0 \/ Assigned(L, max) = Pow2(max) \/ (Assigned(L, max) = 1 /\ max = 1)

\* the first code of length l of the canonical code
RECURSIVE FirstCode(_, _)
FirstCode(L, l) ==
  IF l <= 1 THEN 0 ELSE 2 * (FirstCode(L, l - 1) + CountOf(L, l - 1))

\* the canonical code of every symbol of L (symbol i - 1 at index i); -1
\* for a symbol that has no code
HuffCodes(L) ==
  [i \in 1..Len(L) |->
     IF L[i] = 0 THEN -1
     ELSE FirstCode(L, L[i]) + Cardinality({j \in 1..(i - 1) : L[j] = L[i]})]

\* a huffmanDecoder after init(L): the code lengths, the canonical codes,
\* and min, the number of bits huffSym wants buffered before it looks a
\* code up
huffmanDecoder(L) ==
  [bits |-> L, codes |-> HuffCodes(L), min |-> MinLength(L), max |-> MaxLength(L)]

\* decompressor.huffSym(h): bytes are pulled until h.min bits are there, and
\* the stream ending before that is an unexpected EOF; then bits are read,
\* the first bit of a code highest, until they are the code of a symbol;
\* acc holds the n bits read so far
RECURSIVE huffSym(_, _, _, _, _)
huffSym(s, p, h, acc, n) ==
  IF n = 0 /\ 8 * Len(s) - p < h.min THEN Flate("unexpected EOF", p, 0)
  ELSE IF n > 0 /\ \E i \in 1..Len(h.bits) : h.bits[i] = n /\ h.codes[i] = acc
  THEN Flate(NilErr, p, (CHOOSE i \in 1..Len(h.bits) : h.bits[i] = n /\ h.codes[i] = acc) - 1)
  ELSE IF n >= h.max THEN Flate("flate: corrupt input", p, 0)
  ELSE IF p >= 8 * Len(s) THEN Flate("unexpected EOF", p, 0)
  ELSE huffSym(s, p + 1, h, 2 * acc + BitAt(s, p), n + 1)

\* base and extra bits of the length symbols 257..285 and of the distance
\* symbols 0..29
LengthBase == <<3, 4, 5, 6, 7, 8, 9, 10, 11, 13, 15, 17, 19, 23, 27, 31, 35, 43, 51, 59,
                67, 83, 99, 115, 131, 163, 195, 227, 258>>
LengthExtra == <<0, 0, 0, 0, 0, 0, 0, 0, 1, 1, 1, 1, 2, 2, 2, 2, 3, 3, 3, 3,
                 4, 4, 4, 4, 5, 5, 5, 5, 0>>
DistBase == <<1, 2, 3, 4, 5, 7, 9, 13, 17, 25, 33, 49, 65, 97, 129, 193, 257, 385, 513, 769,
              1025, 1537, 2049, 3073, 4097, 6145, 8193, 12289, 16385, 24577>>
DistExtra == <<0, 0, 0, 0, 1, 1, 2, 2, 3, 3, 4, 4, 5, 5, 6, 6, 7, 7, 8, 8,
               9, 9, 10, 10, 11, 11, 12, 12, 13, 13>>

\* n bytes copied from dist bytes back in the output w, one at a time: a
\* copy longer than dist repeats the last dist bytes
copyHistory(w, dist, n) ==
  w \o [i \in 1..n |-> w[Len(w) - dist + 1 + ((i - 1) % dist)]]

\* one round of a decoding loop: what Flate gives, and whether the loop
\* goes on
Round(err, pos, val, more) == [err |-> err, pos |-> pos, val |-> val, more |-> more]

\* the least k with 2^k >= n
RECURSIVE Log2(_)
Log2(n) == IF n <= 1 THEN 0 ELSE 1 + Log2((n + 1) \div 2)

\* one round of the loop of decompressor.huffmanBlock (its label
\* readLiteral) at what round r left: a symbol is decoded with hl; a literal
\* is written, the end-of-block symbol ends the loop, a length and a
\* distance, decoded with hd, copy earlier output
readLiteral(s, hl, hd, r) ==
  LET p == r.pos
      w == r.val
      copy(length, d) ==
        IF d.err # NilErr THEN Round(d.err, d.pos, w, FALSE)
        ELSE IF d.val >= 30 THEN Round("flate: corrupt input", d.pos, w, FALSE)
        ELSE
        LET p2 == d.pos + DistExtra[d.val + 1] IN
        IF p2 > 8 * Len(s) THEN Round("unexpected EOF", p2, w, FALSE)
        ELSE
        LET dist == DistBase[d.val + 1] + BitsAt(s, d.pos, DistExtra[d.val + 1]) IN
        IF dist > Len(w) THEN Round("flate: corrupt input", p2, w, FALSE)
        ELSE Round(NilErr, p2, copyHistory(w, dist, length), TRUE)
      symbol(v) ==
        IF v.err # NilErr THEN Round(v.err, v.pos, w, FALSE)
        ELSE IF v.val < 256 THEN Round(NilErr, v.pos, Append(w, v.val), TRUE)
        ELSE IF v.val = 256 THEN Round(NilErr, v.pos, w, FALSE)
        ELSE IF v.val >= 286 THEN Round("flate: corrupt input", v.pos, w, FALSE)
        ELSE
        LET k  == v.val - 256
            p1 == v.pos + LengthExtra[k]
        IN IF p1 > 8 * Len(s) THEN Round("unexpected EOF", p1, w, FALSE)
           ELSE copy(LengthBase[k] + BitsAt(s, v.pos, LengthExtra[k]),
                     huffSym(s, p1, hd, 0, 0))
  IN symbol(huffSym(s, p, hl, 0, 0))

\* up to 2^k rounds of readLiteral from r on, the second half after the
\* first, stopping at the round that ends the loop
RECURSIVE huffmanRounds(_, _, _, _, _)
huffmanRounds(s, hl, hd, k, r) ==
  IF ~r.more THEN r
  ELSE IF k = 0 THEN readLiteral(s, hl, hd, r)
  ELSE huffmanRounds(s, hl, hd, k - 1, huffmanRounds(s, hl, hd, k - 1, r))

\* decompressor.huffmanBlock: readLiteral is repeated up to the end-of-block
\* symbol or an error; every round but the last takes a bit or more, so
\* there are no more rounds than the stream has bits, and one
huffmanBlock(s, p, w, hl, hd) ==
  LET ended(r) == Flate(r.err, r.pos, r.val)
  IN ended(huffmanRounds(s, hl, hd, Log2(8 * Len(s) + 1), Round(NilErr, p, w, TRUE)))

\* decompressor.dataBlock: a stored block starts at the next byte with its
\* length and the complement of it, two bytes each, the low byte first
dataBlock(s, p, w) ==
  LET q == (p + 7) \div 8 IN
  IF q + 4 > Len(s) THEN Flate("unexpected EOF", 8 * Len(s), w)
  ELSE
  LET n  == s[q + 1] + 256 * s[q + 2]
      nn == s[q + 3] + 256 * s[q + 4]
  IN IF nn # 65535 - n THEN Flate("flate: corrupt input", 8 * (q + 4), w)
     ELSE IF q + 4 + n > Len(s) THEN Flate("unexpected EOF", 8 * Len(s), w)
     ELSE Flate(NilErr, 8 * (q + 4 + n), w \o SubSeq(s, q + 5, q + 4 + n))

\* the order in which a dynamic block stores the lengths of its code length
\* code
codeOrder == <<16, 17, 18, 0, 8, 7, 9, 6, 10, 5, 11, 4, 12, 3, 13, 2, 14, 1, 15>>

\* one round of the second loop of decompressor.readHuffman: a symbol of
\* the code length code h is decoded; below 16 it is a code length, 16
\* repeats the length before, 17 and 18 write zeros; n lengths are wanted
readLength(s, h, n, r) ==
  LET bits == r.val
      symbol(x) ==
        IF x.err # NilErr THEN Round(x.err, x.pos, bits, FALSE)
        ELSE IF x.val < 16 THEN Round(NilErr, x.pos, Append(bits, x.val), Len(bits) + 1 < n)
        ELSE
        LET nb  == CASE x.val = 16 -> 2 [] x.val = 17 -> 3 [] OTHER -> 7
            min == CASE x.val = 16 -> 3 [] x.val = 17 -> 3 [] OTHER -> 11
        IN IF x.val = 16 /\ Len(bits) = 0 THEN Round("flate: corrupt input", x.pos, bits, FALSE)
           ELSE IF x.pos + nb > 8 * Len(s) THEN Round("unexpected EOF", x.pos + nb, bits, FALSE)
           ELSE
           LET rep == min + BitsAt(s, x.pos, nb)
               b   == IF x.val = 16 THEN bits[Len(bits)] ELSE 0
           IN IF Len(bits) + rep > n THEN Round("flate: corrupt input", x.pos + nb, bits, FALSE)
              ELSE Round(NilErr, x.pos + nb, bits \o [i \in 1..rep |-> b], Len(bits) + rep < n)
  IN symbol(huffSym(s, r.pos, h, 0, 0))

\* up to 2^k rounds of readLength from r on
RECURSIVE lengthRounds(_, _, _, _, _)
lengthRounds(s, h, n, k, r) ==
  IF ~r.more THEN r
  ELSE IF k = 0 THEN readLength(s, h, n, r)
  ELSE lengthRounds(s, h, n, k - 1, lengthRounds(s, h, n, k - 1, r))

\* decompressor.readHuffman, second half: the n code lengths of the two
\* alphabets are decoded with the code length code h, a length or more a
\* round
readLengths(s, p, h, n, bits) ==
  LET ended(r) == Flate(r.err, r.pos, r.val)
  IN ended(lengthRounds(s, h, n, Log2(n + 1), Round(NilErr, p, bits, Len(bits) < n)))

\* a block with its own codes: decompressor.readHuffman, then huffmanBlock.
\* readHuffman ends by raising the min of the literal/length decoder to the
\* length of the end-of-block code (symbol 256, at index 257 of L), which
\* every block must hold.
dynamicBlock(s, p, w) ==
  IF p + 14 > 8 * Len(s) THEN Flate("unexpected EOF", 8 * Len(s), w)
  ELSE
  LET nlit  == BitsAt(s, p, 5) + 257
      ndist == BitsAt(s, p + 5, 5) + 1
      nclen == BitsAt(s, p + 10, 4) + 4
      p1    == p + 14 + 3 * nclen
  IN IF nlit > 286 \/ ndist > 30 THEN Flate("flate: corrupt input", p + 14, w)
     ELSE IF p1 > 8 * Len(s) THEN Flate("unexpected EOF", 8 * Len(s), w)
     ELSE
     LET h1(L) == LET h == huffmanDecoder(L)
                  IN IF h.min < L[257] THEN [h EXCEPT !.min = L[257]] ELSE h
         codes(q, L, DL) ==
           IF ~huffInit(L) \/ ~huffInit(DL) THEN Flate("flate: corrupt input", q, w)
           ELSE huffmanBlock(s, q, w, h1(L), huffmanDecoder(DL))
         lengths(r) ==
           IF r.err # NilErr THEN Flate(r.err, r.pos, w)
           ELSE codes(r.pos, SubSeq(r.val, 1, nlit), SubSeq(r.val, nlit + 1, nlit + ndist))
         codeLengths(CL) ==
           IF ~huffInit(CL) THEN Flate("flate: corrupt input", p1, w)
           ELSE lengths(readLengths(s, p1, huffmanDecoder(CL), nlit + ndist, <<>>))
     IN codeLengths([i \in 1..19 |->
                       IF \E k \in 1..nclen : codeOrder[k] = i - 1
                       THEN BitsAt(s, p + 14 + 3 * ((CHOOSE k \in 1..nclen : codeOrder[k] = i - 1) - 1), 3)
                       ELSE 0])

\* the decoder of a fixed block's literals and lengths, and the five bits
\* a fixed block gives a distance symbol
fixedHuffmanDecoder == huffmanDecoder(FixedLengths)
fixedDistDecoder == huffmanDecoder(FixedDistLengths)

\* decompressor.nextBlock at what block r left: the final flag and the type
\* of the block are read, and the block by its type
nextBlock(s, r) ==
  LET p == r.pos
      w == r.val
      block(final, f) == Round(f.err, f.pos, f.val, f.err = NilErr /\ ~final)
  IN IF p + 3 > 8 * Len(s) THEN Round("unexpected EOF", 8 * Len(s), w, FALSE)
     ELSE block(BitAt(s, p) = 1,
                CASE BitsAt(s, p + 1, 2) = 0 -> dataBlock(s, p + 3, w)
                  [] BitsAt(s, p + 1, 2) = 1 ->
                       huffmanBlock(s, p + 3, w, fixedHuffmanDecoder, fixedDistDecoder)
                  [] BitsAt(s, p + 1, 2) = 2 -> dynamicBlock(s, p + 3, w)
                  [] OTHER -> Flate("flate: corrupt input", p + 3, w))

\* up to 2^k blocks from r on
RECURSIVE blockRounds(_, _, _)
blockRounds(s, k, r) ==
  IF ~r.more THEN r
  ELSE IF k = 0 THEN nextBlock(s, r)
  ELSE blockRounds(s, k - 1, blockRounds(s, k - 1, r))

\* the loop of decompressor.Read: blocks are decoded up to the one marked
\* final; a block takes three bits or more
inflateBlocks(s, p, w) ==
  LET ended(r) == Flate(r.err, r.pos, r.val)
  IN ended(blockRounds(s, Log2(8 * Len(s) + 1), Round(NilErr, p, w, TRUE)))

\* up to 2^k bytes of b added to the two 16-bit halves of an Adler-32 sum,
\* from the byte after a.i on
RECURSIVE adlerRounds(_, _, _)
adlerRounds(b, k, a) ==
  IF a.i >= Len(b) THEN a
  ELSE IF k = 0
  THEN [i |-> a.i + 1, lo |-> (a.lo + b[a.i + 1]) % 65521,
        hi |-> (a.hi + a.lo + b[a.i + 1]) % 65521]
  ELSE adlerRounds(b, k - 1, adlerRounds(b, k - 1, a))

\* adler32.Checksum(b) as its two 16-bit halves, from the halves lo and hi
Adler32(b, lo, hi) ==
  adlerRounds(b, Log2(Len(b) + 1), [i |-> 0, lo |-> lo, hi |-> hi])

\* zlib.NewReader + ioutil.ReadAll on s: the two header bytes are checked,
\* the deflate blocks are decoded, and the four bytes after them are
\* compared with the checksum of what was written; bytes after those are
\* not read. The offset in flate's corrupt-input error is left out.
Inflate(s) ==
  IF Len(s) < 2 THEN [val |-> <<>>, err |-> "unexpected EOF"]
  ELSE IF s[1] % 16 # 8 \/ s[1] \div 16 > 7 \/ (s[1] * 256 + s[2]) % 31 # 0
  THEN [val |-> <<>>, err |-> "zlib: invalid header"]
  ELSE
  LET dict == (s[2] \div 32) % 2 = 1
      body == SubSeq(s, IF dict THEN 7 ELSE 3, Len(s))
  IN IF dict /\ Len(s) < 6 THEN [val |-> <<>>, err |-> "unexpected EOF"]
     ELSE IF dict /\ SubSeq(s, 3, 6) # <<0, 0, 0, 1>>
     THEN [val |-> <<>>, err |-> "zlib: invalid dictionary"]
     ELSE
     LET trailer(r, q, sum) ==
           IF r.err # NilErr THEN [val |-> <<>>, err |-> r.err]
           ELSE IF q + 4 > Len(body) THEN [val |-> <<>>, err |-> "unexpected EOF"]
           ELSE IF body[q + 1] * 256 + body[q + 2] # sum.hi \/ body[q + 3] * 256 + body[q + 4] # sum.lo
           THEN [val |-> <<>>, err |-> "zlib: invalid checksum"]
           ELSE [val |-> r.val, err |-> NilErr]
         read(r) == trailer(r, (r.pos + 7) \div 8, Adler32(r.val, 1, 0))
     IN read(inflateBlocks(body, 0, <<>>))

KeyVal(st, key, val, err) == [st |-> st, key |-> key, val |-> val, err |-> err]

decodeKeyValComp(blob) ==
  LET sep == IndexByte(blob, 0) IN
  IF sep = -1 THEN KeyVal("err", <<>>, <<>>, "no text separator found")
  ELSE IF sep + 1 >= Len(blob) THEN KeyVal("panic", <<>>, <<>>, "panic")
  ELSE LET key == Slice(blob, 0, sep)
           rest == Slice(blob, sep + 2, Len(blob))
       IN CASE At(blob, sep + 1) = 0 -> KeyVal("ok", key, rest, NilErr)
            [] At(blob, sep + 1) = 1 ->
                 LET u == Inflate(rest)
                 IN IF u.err # NilErr THEN KeyVal("err", <<>>, <<>>, u.err)
                    ELSE KeyVal("ok", key, u.val, NilErr)
            [] OTHER -> KeyVal("err", <<>>, <<>>, "unknown compression type")

\* A chunk as the handler meets it: the payload of the declared length, a
\* flag for a stream that ends one byte before the payload does, and whether
\* the stored CRC matches.
Chunk(data, short, crcOk) == [data |-> data, short |-> short, crcOk |-> crcOk]

\* io.ReadFull into a buffer of the given length from a stream that holds
\* avail more bytes: io.EOF when not one byte could be read, and
\* io.ErrUnexpectedEOF after some but not all
readFull(length, avail) ==
  IF avail >= length THEN NilErr ELSE IF avail = 0 THEN "EOF" ELSE "unexpected EOF"

\* the bytes of chunk c's payload the stream holds
availOf(c) == IF c.short /\ Len(c.data) > 0 THEN Len(c.data) - 1 ELSE Len(c.data)

\* what reading the payload of chunk c gives
readChunk(c) == readFull(Len(c.data), availOf(c))

\* len(d.tmp), the working buffer of the decoder
tmpLen == 768

\* readData: a payload that fits the working buffer is read into it, a longer
\* one into a new buffer of the declared length; avail is what the stream
\* still holds
readData(length, avail) ==
  [alloc |-> IF length <= tmpLen THEN 0 ELSE length,
   read  |-> IF avail < length THEN avail ELSE length,
   err   |-> readFull(length, avail)]

parseICCP(c) ==
  /\ phase = "walk" /\ format = "png"
  /\ IF Len(c.data) > tmpLen
     THEN Panicked("parseICCP", "icc") /\ UNCHANGED <<rawIcc, iccName>>
     ELSE IF readChunk(c) # NilErr
     THEN Walked("parseICCP", "icc", readChunk(c)) /\ UNCHANGED <<rawIcc, iccName>>
     ELSE LET kv == decodeKeyValComp(c.data)
          IN CASE kv.st = "panic" ->
                    Panicked("parseICCP", "icc") /\ UNCHANGED <<rawIcc, iccName>>
               [] kv.st = "err" ->
                    Walked("parseICCP", "icc", kv.err) /\ UNCHANGED <<rawIcc, iccName>>
               [] OTHER ->
                    /\ rawIcc' = Some(kv.val)
                    /\ iccName' = kv.key
                    /\ Walked("parseICCP", "icc", verifyChecksum(c.crcOk))
  /\ UNCHANGED <<regVars, format, extVars, exifVars, xmpVars, icc, iccDecodeErr, segVars,
                 appX, Text, Gamma, obsVars>>

TextEntry(key, val, type, lang, tkey) ==
  [Key |-> key, Value |-> val, EntryType |-> type, LanguageTag |-> lang,
   TranslatedKey |-> tkey]

parseTEXT(c) ==
  /\ phase = "walk" /\ format = "png"
  /\ IF Len(c.data) > tmpLen
     THEN Panicked("parseTEXT", "text") /\ UNCHANGED Text
     ELSE IF readChunk(c) # NilErr
     THEN Walked("parseTEXT", "text", readChunk(c)) /\ UNCHANGED Text
     ELSE LET length == Len(c.data)
              sep == IndexByte(c.data, 0)
          IN IF sep = -1
             THEN Walked("parseTEXT", "text", "no text separator found") /\ UNCHANGED Text
             ELSE LET key == Slice(c.data, 0, sep)
                      val == IF sep + 1 >= length
                             THEN Slice(c.data, sep + 1, length)
                             ELSE <<>>
                  IN /\ Text' = Append(Text, TextEntry(key, val, "EtText", <<>>, <<>>))
                     /\ Walked("parseTEXT", "text", verifyChecksum(c.crcOk))
  /\ UNCHANGED <<regVars, format, extVars, exifVars, xmpVars, iccVars, segVars,
                 iccName, appX, Gamma, obsVars>>

\* binary.BigEndian.Uint32
BigEndianUint32(b) == ((b[1] * 256 + b[2]) * 256 + b[3]) * 256 + b[4]

parseGAMA(c) ==
  /\ phase = "walk" /\ format = "png"
  /\ IF Len(c.data) # 4
     THEN Walked("parseGAMA", "gamma", "bad gAMA length") /\ UNCHANGED Gamma
     ELSE IF readChunk(c) # NilErr
     THEN Walked("parseGAMA", "gamma", readChunk(c)) /\ UNCHANGED Gamma
     ELSE /\ Gamma' = Some(BigEndianUint32(c.data))
          /\ Walked("parseGAMA", "gamma", verifyChecksum(c.crcOk))
  /\ UNCHANGED <<regVars, format, extVars, exifVars, xmpVars, iccVars, segVars,
                 iccName, appX, Text, obsVars>>

\* A tag-table or packet record of a png or gif stream is kept as the raw
\* bytes of its field.
CaptureRaw(k, b) ==
  /\ phase = "walk" /\ format \in {"png", "gif"} /\ HasKind(k)
  /\ k \in {"exif", "xmp"}
  /\ IF k = "exif"
     THEN rawExif' = Some(b) /\ UNCHANGED rawXmp
     ELSE rawXmp' = Some(b) /\ UNCHANGED rawExif
  /\ Walked("capture", k, NilErr)
  /\ UNCHANGED <<regVars, format, extVars, exif, exifDecodeErr, xmp, xmpDecodeErr, iccVars,
                 segVars, structVars, obsVars>>

(* ---- package jpeg: APPn segment handlers ---- *)
\* The extension store appX maps a marker to the list of payloads saved
\* under it; the nil map and the empty map are both the empty function.
saveAppN_replace(store, n, buf) ==
  IF n \in DOMAIN store
  THEN [store EXCEPT ![n] = <<buf>>]
  ELSE store @@ (n :> <<buf>>)

saveAppN(store, n, buf) ==
  IF n \in DOMAIN store
  THEN [store EXCEPT ![n] = Append(@, buf)]
  ELSE store @@ (n :> <<buf>>)

\* A segment as the handler meets it: the n payload bytes, and a flag for a
\* stream that ends before the payload does (readFull fails).
Segment(buf, short) == [buf |-> buf, short |-> short]

\* arrived after a handler was given segment s under marker m and returned
\* err: a segment is recorded when the handler returned nil
Arrive(m, s, err) ==
  IF err = NilErr THEN Append(arrived, [marker |-> m, buf |-> s.buf]) ELSE arrived

\* what processApp2 leaves in fed for an ICC_PROFILE segment
Fed(index, count, data, err) ==
  [index |-> index, count |-> count, data |-> data, err |-> err]

\* the effect of processApp2 on the Metadata: new values of the segment
\* counters, of rawIcc and of appX, the returned error ("panic" for a run-time
\* panic), and whether the segment was tagged ICC_PROFILE
App2(cnt, seen, raw, store, err, isIcc) ==
  [cnt |-> cnt, seen |-> seen, raw |-> raw, store |-> store, err |-> err,
   isIcc |-> isIcc]

\* variant: segments beyond the declared count are accepted
app2Effect_noLimit(s) ==
  IF s.short
  THEN App2(iccSegmentCount, iccSegmentsSeen, rawIcc, appX, "unexpected EOF", FALSE)
  ELSE
  LET buf == s.buf
      off == IndexByte(buf, 0)
  IN IF off = -1
     THEN App2(iccSegmentCount, iccSegmentsSeen, rawIcc, appX, "panic", FALSE)
     ELSE IF Slice(buf, 0, off) = iccMetadata
     THEN IF off + 2 >= Len(buf)
          THEN App2(iccSegmentCount, iccSegmentsSeen, rawIcc, appX, "panic", FALSE)
          ELSE
          LET index == At(buf, off + 1)
              count == At(buf, off + 2)
              data == Slice(buf, off + 3, Len(buf))
              cnt1 == IF iccSegmentCount = 0 THEN count ELSE iccSegmentCount
              seen1 == iccSegmentsSeen + 1
          IN IF cnt1 # count
             THEN App2(cnt1, iccSegmentsSeen, rawIcc, appX,
                       "Invalid icc segment counts", TRUE)
             ELSE IF index = 1
             THEN App2(cnt1, seen1, Some(data), appX, NilErr, TRUE)
             ELSE App2(cnt1, seen1, GoAppend(rawIcc, data), appX, NilErr, TRUE)
     ELSE App2(iccSegmentCount, iccSegmentsSeen, rawIcc,
               saveAppN(appX, app2Marker, buf), NilErr, FALSE)

\* variant: the declared count of every segment replaces the recorded one
app2Effect_lastCount(s) ==
  IF s.short
  THEN App2(iccSegmentCount, iccSegmentsSeen, rawIcc, appX, "unexpected EOF", FALSE)
  ELSE
  LET buf == s.buf
      off == IndexByte(buf, 0)
  IN IF off = -1
     THEN App2(iccSegmentCount, iccSegmentsSeen, rawIcc, appX, "panic", FALSE)
     ELSE IF Slice(buf, 0, off) = iccMetadata
     THEN IF off + 2 >= Len(buf)
          THEN App2(iccSegmentCount, iccSegmentsSeen, rawIcc, appX, "panic", FALSE)
          ELSE
          LET index == At(buf, off + 1)
              count == At(buf, off + 2)
              data == Slice(buf, off + 3, Len(buf))
              cnt1 == count
              seen1 == iccSegmentsSeen + 1
          IN IF seen1 > cnt1
             THEN App2(cnt1, seen1, rawIcc, appX, "Too many icc segments", TRUE)
             ELSE IF index = 1
             THEN App2(cnt1, seen1, Some(data), appX, NilErr, TRUE)
             ELSE App2(cnt1, seen1, GoAppend(rawIcc, data), appX, NilErr, TRUE)
     ELSE App2(iccSegmentCount, iccSegmentsSeen, rawIcc,
               saveAppN(appX, app2Marker, buf), NilErr, FALSE)

app2Effect(s) ==
  IF s.short
  THEN App2(iccSegmentCount, iccSegmentsSeen, rawIcc, appX, "unexpected EOF", FALSE)
  ELSE
  LET buf == s.buf
      off == IndexByte(buf, 0)
  IN IF off = -1
     THEN App2(iccSegmentCount, iccSegmentsSeen, rawIcc, appX, "panic", FALSE)
     ELSE IF Slice(buf, 0, off) = iccMetadata
     THEN IF off + 2 >= Len(buf)
          THEN App2(iccSegmentCount, iccSegmentsSeen, rawIcc, appX, "panic", FALSE)
          ELSE
          LET index == At(buf, off + 1)
              count == At(buf, off + 2)
              data == Slice(buf, off + 3, Len(buf))
              cnt1 == IF iccSegmentCount = 0 THEN count ELSE iccSegmentCount
              seen1 == iccSegmentsSeen + 1
          IN IF cnt1 # count
             THEN App2(cnt1, iccSegmentsSeen, rawIcc, appX,
                       "Invalid icc segment counts", TRUE)
             ELSE IF seen1 > cnt1
             THEN App2(cnt1, seen1, rawIcc, appX, "Too many icc segments", TRUE)
             ELSE IF index = 1
             THEN App2(cnt1, seen1, Some(data), appX, NilErr, TRUE)
             ELSE App2(cnt1, seen1, GoAppend(rawIcc, data), appX, NilErr, TRUE)
     ELSE App2(iccSegmentCount, iccSegmentsSeen, rawIcc,
               saveAppN(appX, app2Marker, buf), NilErr, FALSE)

processApp2(s) ==
  /\ phase = "walk" /\ format = "jpeg"
  /\ LET e == app2Effect(s)
     IN /\ iccSegmentCount' = e.cnt
        /\ iccSegmentsSeen' = e.seen
        /\ rawIcc' = e.raw
        /\ appX' = e.store
        /\ fed' = IF e.isIcc
                  THEN LET off == IndexByte(s.buf, 0)
                       IN Append(fed, Fed(At(s.buf, off + 1), At(s.buf, off + 2),
                                          Slice(s.buf, off + 3, Len(s.buf)), e.err))
                  ELSE fed
        /\ arrived' = Arrive(app2Marker, s, e.err)
        /\ IF e.err = "panic"
           THEN Panicked("processApp2", "icc")
           ELSE Walked("processApp2", "icc", e.err)
  /\ UNCHANGED <<regVars, format, app0Vars, app14Vars, gifVars, goVars, streamVars, ioVars, dfrVars, imgVars, pngVars, exifVars, xmpVars,
                 icc, iccDecodeErr, iccName, Text, Gamma, obsVars>>

\* the APPn marker bytes
app0Marker == 224
app1Marker == 225
app14Marker == 238
app15Marker == 239

\* "JFIF" and "Adobe"
jfifMetadata == <<74, 70, 73, 70>>
adobeMetadata == <<65, 100, 111, 98, 101>>

\* binary.BigEndian.Uint16(buf[o:]); callers check o + 1 < len(buf)
BigEndianUint16(buf, o) == At(buf, o) * 256 + At(buf, o + 1)

\* variant: a payload longer than the pixel count is cut to size
decodeThumbnail_truncate(buf, xw, yw) ==
  IF xw * yw * 3 > Len(buf)
  THEN [err |-> "thumbnail size error", img |-> None]
  ELSE [err |-> NilErr,
        img |-> Some([q \in (0..(xw - 1)) \X (0..(yw - 1)) |->
                       <<At(buf, q[1] + q[2] * xw), At(buf, q[1] + q[2] * xw + 1),
                         At(buf, q[1] + q[2] * xw + 2), 0>>])]

\* decodeThumbnail on the bytes after the JFIF header: an error when the
\* length is not 3 * xw * yw, else the image whose pixel (x, y) is built from
\* the three bytes starting at offset x + y*xw, with alpha 0
decodeThumbnail(buf, xw, yw) ==
  IF xw * yw * 3 # Len(buf)
  THEN [err |-> "thumbnail size error", img |-> None]
  ELSE [err |-> NilErr,
        img |-> Some([q \in (0..(xw - 1)) \X (0..(yw - 1)) |->
                       <<At(buf, q[1] + q[2] * xw), At(buf, q[1] + q[2] * xw + 1),
                         At(buf, q[1] + q[2] * xw + 2), 0>>])]

\* the fields processApp0 writes, as they are before the call
App0Now ==
  [jfif |-> jfif, Version |-> Version, Units |-> Units, XDensity |-> XDensity,
   YDensity |-> YDensity, XThumbnail |-> XThumbnail, YThumbnail |-> YThumbnail,
   Thumbnail |-> Thumbnail, store |-> appX, err |-> NilErr]

\* the effect of processApp0 on segment s; tmp7 is the byte the decoder's
\* scratch buffer d.tmp holds at offset 7, which the handler does not fill
app0Effect(s, tmp7) ==
  IF s.short THEN [App0Now EXCEPT !.err = "unexpected EOF"]
  ELSE
  LET buf == s.buf
      n == Len(buf)
      off == IndexByte(buf, 0)
  IN IF off = -1 THEN [App0Now EXCEPT !.err = "panic"]
     ELSE IF Slice(buf, 0, off) # jfifMetadata
     THEN [App0Now EXCEPT !.store = saveAppN(appX, app0Marker, buf)]
     ELSE
     LET r0 == [App0Now EXCEPT !.jfif = TRUE] IN
     IF n <= 5 THEN r0
     ELSE IF n < 7 THEN [r0 EXCEPT !.err = "panic"]
     ELSE
     LET r1 == [r0 EXCEPT !.Version = BigEndianUint16(buf, 5)] IN
     IF n <= 7 THEN r1
     ELSE
     LET r2 == [r1 EXCEPT !.Units = tmp7] IN
     IF n <= 8 THEN r2
     ELSE IF n < 10 THEN [r2 EXCEPT !.err = "panic"]
     ELSE
     LET r3 == [r2 EXCEPT !.XDensity = BigEndianUint16(buf, 8)] IN
     IF n <= 10 THEN r3
     ELSE IF n < 12 THEN [r3 EXCEPT !.err = "panic"]
     ELSE
     LET r4 == [r3 EXCEPT !.YDensity = BigEndianUint16(buf, 10)] IN
     IF n < 13 THEN [r4 EXCEPT !.err = "panic"]
     ELSE
     LET r5 == [r4 EXCEPT !.XThumbnail = At(buf, 12)] IN
     IF n < 14 THEN [r5 EXCEPT !.err = "panic"]
     ELSE
     LET r6 == [r5 EXCEPT !.YThumbnail = At(buf, 13)] IN
     IF At(buf, 12) = 0 \/ At(buf, 13) = 0 THEN r6
     ELSE
     LET t == decodeThumbnail(Slice(buf, 14, n), At(buf, 12), At(buf, 13))
     IN IF t.err # NilErr THEN [r6 EXCEPT !.err = t.err]
        ELSE [r6 EXCEPT !.Thumbnail = t.img]

\* what a handler's return means for the walk
Returned(op, err) ==
  IF err = "panic" THEN Panicked(op, "app") ELSE Walked(op, "app", err)

processApp0(s, tmp7) ==
  /\ phase = "walk" /\ format = "jpeg"
  /\ LET e == app0Effect(s, tmp7)
     IN /\ jfif' = e.jfif /\ Version' = e.Version /\ Units' = e.Units
        /\ XDensity' = e.XDensity /\ YDensity' = e.YDensity
        /\ XThumbnail' = e.XThumbnail /\ YThumbnail' = e.YThumbnail
        /\ Thumbnail' = e.Thumbnail
        /\ appX' = e.store
        /\ arrived' = Arrive(app0Marker, s, e.err)
        /\ Returned("processApp0", e.err)
  /\ UNCHANGED <<regVars, format, app14Vars, gifVars, goVars, streamVars, ioVars, dfrVars, imgVars, pngVars, exifVars, xmpVars, iccVars,
                 segVars, iccName, Text, Gamma, obsVars>>

\* the effect of processApp1: the extension store and the returned error
app1Effect(s) ==
  IF s.short THEN [store |-> appX, err |-> "unexpected EOF"]
  ELSE IF IndexByte(s.buf, 0) = -1 THEN [store |-> appX, err |-> "panic"]
  ELSE [store |-> saveAppN(appX, app1Marker, s.buf), err |-> NilErr]

processApp1(s) ==
  /\ phase = "walk" /\ format = "jpeg"
  /\ LET e == app1Effect(s)
     IN /\ appX' = e.store
        /\ arrived' = Arrive(app1Marker, s, e.err)
        /\ Returned("processApp1", e.err)
  /\ UNCHANGED <<regVars, format, app0Vars, app14Vars, gifVars, goVars, streamVars, ioVars, dfrVars, imgVars, pngVars, exifVars, xmpVars,
                 iccVars, segVars, iccName, Text, Gamma, obsVars>>

\* the effect of processApp14: the Adobe transform, the extension store and
\* the returned error
app14Effect(s) ==
  LET now == [valid |-> adobeTransformValid, transform |-> adobeTransform,
              store |-> appX, err |-> NilErr]
  IN
  IF s.short THEN [now EXCEPT !.err = "unexpected EOF"]
  ELSE
  LET buf == s.buf
      off == IndexByte(buf, 0)
  IN IF off + 1 >= Len(buf) \/ off = -1 THEN [now EXCEPT !.err = "panic"]
     ELSE IF Slice(buf, 0, off) = adobeMetadata
     THEN IF Len(buf) < 12
          THEN [now EXCEPT !.valid = TRUE, !.err = "panic"]
          ELSE [now EXCEPT !.valid = TRUE, !.transform = At(buf, 11)]
     ELSE [now EXCEPT !.store = saveAppN(appX, app14Marker, buf)]

processApp14(s) ==
  /\ phase = "walk" /\ format = "jpeg"
  /\ LET e == app14Effect(s)
     IN /\ adobeTransformValid' = e.valid
        /\ adobeTransform' = e.transform
        /\ appX' = e.store
        /\ arrived' = Arrive(app14Marker, s, e.err)
        /\ Returned("processApp14", e.err)
  /\ UNCHANGED <<regVars, format, app0Vars, gifVars, goVars, streamVars, ioVars, dfrVars, imgVars, pngVars, exifVars, xmpVars, iccVars,
                 segVars, iccName, Text, Gamma, obsVars>>

\* the effect of processUnknownApp under marker app
unknownAppEffect(app, s) ==
  IF s.short THEN [store |-> appX, err |-> "unexpected EOF"]
  ELSE [store |-> saveAppN(appX, app, s.buf), err |-> NilErr]

processUnknownApp(app, s) ==
  /\ phase = "walk" /\ format = "jpeg"
  /\ LET e == unknownAppEffect(app, s)
     IN /\ appX' = e.store
        /\ arrived' = Arrive(app, s, e.err)
        /\ Returned("processUnknownApp", e.err)
  /\ UNCHANGED <<regVars, format, app0Vars, app14Vars, gifVars, goVars, streamVars, ioVars, dfrVars, imgVars, pngVars, exifVars, xmpVars,
                 iccVars, segVars, iccName, Text, Gamma, obsVars>>

(* ---- package gif: application extension blocks ---- *)
\* "NETSCAPE" and "2.0"
netscapeId == <<78, 69, 84, 83, 67, 65, 80, 69>>
netscapeAuth == <<50, 46, 48>>

RECURSIVE Flatten(_)
\* the sub-blocks of an extension appended one after the other
Flatten(subs) == IF subs = <<>> THEN <<>> ELSE Head(subs) \o Flatten(Tail(subs))

\* An application extension block as readApplication meets it: the size
\* byte, the size bytes of the body, the data sub-blocks before the
\* terminator, and where the stream ends ("none": it does not; "size": before
\* the size byte; "body": inside the body; "sub": inside the sub-blocks)
AppBlock(size, body, subs, fail) ==
  [size |-> size, body |-> body, subs |-> subs, fail |-> fail]

\* the effect of readApplication on block b: the extension map (one entry
\* per application identifier), the loop count, the returned error, and
\* whether the block went to the map
appEffect(b) ==
  LET now == [ext |-> Extensions, loop |-> loopCount, err |-> NilErr, kept |-> FALSE] IN
  IF b.fail = "size" THEN [now EXCEPT !.err = "gif: reading extension"]
  ELSE IF b.fail = "body" THEN [now EXCEPT !.err = "unexpected EOF"]
  ELSE IF b.size < 8 THEN [now EXCEPT !.err = "panic"]
  ELSE IF b.fail = "sub" THEN [now EXCEPT !.err = "unexpected EOF"]
  ELSE
  LET appId == Slice(b.body, 0, 8)
      authCode == Slice(b.body, 8, b.size)
      c == Flatten(b.subs)
  IN IF appId = netscapeId
     THEN IF authCode = netscapeAuth /\ Len(c) = 3 /\ At(c, 0) = 1
          THEN [now EXCEPT !.loop = At(c, 1) + At(c, 2) * 256]
          ELSE now
     ELSE [now EXCEPT !.kept = TRUE,
             !.ext = IF appId \in DOMAIN Extensions
                     THEN [Extensions EXCEPT ![appId] = [AuthCode |-> authCode, Body |-> c]]
                     ELSE Extensions @@ (appId :> [AuthCode |-> authCode, Body |-> c])]

readApplication(b) ==
  /\ phase = "walk" /\ format = "gif"
  /\ LET e == appEffect(b)
     IN /\ Extensions' = e.ext
        /\ loopCount' = e.loop
        /\ blocks' = IF e.err = NilErr
                     THEN Append(blocks, [appId |-> Slice(b.body, 0, 8),
                                          AuthCode |-> Slice(b.body, 8, b.size),
                                          Body |-> Flatten(b.subs)])
                     ELSE blocks
        /\ Returned("readApplication", e.err)
  /\ UNCHANGED <<regVars, format, app0Vars, app14Vars, arrived, Comments, ioVars, goVars, streamVars, dfrVars, imgVars, pngVars, exifVars,
                 xmpVars, iccVars, segVars, structVars, obsVars>>

(* ---- write-side validation ---- *)
\* the largest payload one JPEG segment carries: the 16-bit segment length
\* counts its own two bytes
maxSegmentSize == 65533

\* what Metadata.validate finds wrong under key k of the store, if anything:
\* the key is tested before the entries stored under it
segmentFault(store, k) ==
  IF k < app0Marker \/ k > app15Marker THEN "Invalid segment marker"
  ELSE IF \E i \in 1..Len(store[k]) : Len(store[k][i]) > maxSegmentSize
       THEN "Entry larger than maximum"
       ELSE NilErr

\* variant: the last application marker is taken to be out of range
validate_strictRange(store) ==
  LET faulty == { k \in DOMAIN store :
                    k >= app15Marker \/ segmentFault(store, k) # NilErr }
  IN IF faulty = {} THEN {NilErr}
     ELSE { IF k >= app15Marker THEN "Invalid segment marker" ELSE segmentFault(store, k)
              : k \in faulty }

\* Metadata.validate: the errors it may return for the store. The map is
\* ranged over in an unspecified order and the first faulty key met decides.
validate(store) ==
  LET faulty == { k \in DOMAIN store : segmentFault(store, k) # NilErr }
  IN IF faulty = {} THEN {NilErr} ELSE { segmentFault(store, k) : k \in faulty }

\* the longest key of a PNG text entry
MaxKeyLength == 79

\* strings.Contains(key, "\x00")
ContainsNul(key) == \E i \in 1..Len(key) : key[i] = 0

\* what validateMetadata finds wrong with one text entry, if anything
textFault(v) ==
  IF Len(v.Key) > MaxKeyLength \/ Len(v.Key) = 0 THEN "Invalid length for key"
  ELSE IF ContainsNul(v.Key) THEN "text key contains a null"
  ELSE NilErr

\* variant: only the first text entry is validated
validateMetadata_firstOnly(text) ==
  IF text = <<>> THEN NilErr ELSE textFault(text[1])

\* Metadata.validateMetadata: the fault of the first faulty entry of the list
validateMetadata(text) ==
  IF \A i \in 1..Len(text) : textFault(text[i]) = NilErr THEN NilErr
  ELSE textFault(text[CHOOSE i \in 1..Len(text) :
                       /\ textFault(text[i]) # NilErr
                       /\ \A j \in 1..(i - 1) : textFault(text[j]) = NilErr])

\* a call of Metadata.validate on a jpeg Metadata about to be written
Validate ==
  /\ phase = "built" /\ format = "jpeg"
  /\ \E err \in validate(appX) :
        ret' = Ret("validate", "appX", None, err, FALSE, "none", FALSE)
  /\ phase' = "validated"
  /\ UNCHANGED <<regVars, format, extVars, exifVars, xmpVars, iccVars, segVars,
                 structVars, nrec, obsVars>>

\* a call of Metadata.validateMetadata on a png Metadata about to be written
ValidateMetadata ==
  /\ phase = "built" /\ format = "png"
  /\ ret' = Ret("validate", "text", None, validateMetadata(Text), FALSE, "none", FALSE)
  /\ phase' = "validated"
  /\ UNCHANGED <<regVars, format, extVars, exifVars, xmpVars, iccVars, segVars,
                 structVars, nrec, obsVars>>

(* ---- package image: format registry and sniffing ---- *)
\* format{}: the zero value sniff returns when nothing matches
NoFormat == [name |-> "", magic |-> <<>>, decode |-> "nil"]

\* the byte '?'
Wildcard == 63

\* the reader is at the start of its stream
InitStream == readOff = 0

\* the goroutines that call RegisterFormatExtended and those that call sniff
Registrars == {"r1", "r2"}
Sniffers == {"s1"}
Goroutines == Registrars \cup Sniffers

\* no goroutine holds the mutex or is inside a call
InitGo ==
  /\ formatsMu = None
  /\ pc = [g \in Goroutines |-> "idle"]
  /\ loaded = [g \in Goroutines |-> <<>>]
  /\ registered = [g \in Goroutines |-> 0]

\* the image package before any registration and any decode call
InitImage ==
  /\ atomicFormats = <<>>
  /\ stream = None
  /\ sniffed = NoFormat
  /\ decoded = None
  /\ invocations = <<>>
  /\ options = <<>>

\* RegisterFormatExtended appends the format to the list
RegisterFormatExtended(name, magic) ==
  /\ Len(atomicFormats) < MaxFormats
  /\ stream = None
  /\ atomicFormats' = Append(atomicFormats, [name |-> name, magic |-> magic, decode |-> name])
  /\ UNCHANGED <<regVars, format, app0Vars, app14Vars, arrived, gifVars, goVars, streamVars, ioVars, dfrVars, pngVars,
                 stream, sniffed, decoded, invocations, options, exifVars, xmpVars, iccVars,
                 segVars,
                 structVars, phase, nrec, ret, obsVars>>

\* variant: '?' in the magic is an ordinary byte
match_exact(magic, b) ==
  /\ Len(magic) = Len(b)
  /\ \A i \in 1..Len(b) : magic[i] = b[i]

\* match(magic, b)
match(magic, b) ==
  /\ Len(magic) = Len(b)
  /\ \A i \in 1..Len(b) : ~(magic[i] # b[i] /\ magic[i] # Wildcard)

\* A buffered reader over the caller's data: r bytes have been read from it,
\* w bytes have been taken from the underlying reader into its buffer;
\* wrapped tells that asReader made it with bufio.NewReader.
asReader(data, peeks) == [data |-> data, r |-> 0, w |-> 0, wrapped |-> ~peeks]

\* variant: the bytes looked at are read, not peeked
Peek_consume(rd, n) ==
  LET w2 == IF rd.w - rd.r < n THEN Len(rd.data) ELSE rd.w
      m  == IF w2 - rd.r < n THEN w2 - rd.r ELSE n
  IN [rd  |-> [rd EXCEPT !.w = w2, !.r = rd.r + m],
      b   |-> Slice(rd.data, rd.r, rd.r + m),
      err |-> IF m < n THEN "EOF" ELSE NilErr]

\* Peek(n): fills the buffer until it holds n bytes or the underlying reader
\* is at its end, and returns the next n bytes (fewer, with an error, at the
\* end of the data) without advancing the read position
Peek(rd, n) ==
  LET w2 == IF rd.w - rd.r < n THEN Len(rd.data) ELSE rd.w
      m  == IF w2 - rd.r < n THEN w2 - rd.r ELSE n
  IN [rd  |-> [rd EXCEPT !.w = w2],
      b   |-> Slice(rd.data, rd.r, rd.r + m),
      err |-> IF m < n THEN "EOF" ELSE NilErr]

\* sniff(r), from the i-th registered format on: the format found and the
\* reader as the Peek calls left it
RECURSIVE sniff(_, _, _)
sniff(formats, rd, i) ==
  IF i > Len(formats) THEN [f |-> NoFormat, rd |-> rd]
  ELSE LET p == Peek(rd, Len(formats[i].magic))
       IN IF p.err = NilErr /\ match(formats[i].magic, p.b)
          THEN [f |-> formats[i], rd |-> p.rd]
          ELSE sniff(formats, p.rd, i + 1)

\* what a decode entrypoint that reads its reader to the end gets
ReadAll(rd) == [rd |-> [rd EXCEPT !.r = Len(rd.data), !.w = Len(rd.data)],
                b  |-> Slice(rd.data, rd.r, Len(rd.data))]

(* ---- package image: read options ---- *)
DefaultDecodeOption == 0
DiscardData == 1
DeferData == 2
DecodeData == 3

ErrFormat == "image: unknown format"
ErrOption == "image: invalid options"

\* the four kinds of read option of the package
DataDecodeOptions(img, meta) ==
  [kind |-> "DataDecodeOptions", DecodeImage |-> img, DecodeMetadata |-> meta]
LimitOptions ==
  [kind |-> "LimitOptions", DecodeImage |-> 0, DecodeMetadata |-> 0]
DamageHandlingOptions ==
  [kind |-> "DamageHandlingOptions", DecodeImage |-> 0, DecodeMetadata |-> 0]
ImageTransformOptions ==
  [kind |-> "ImageTransformOptions", DecodeImage |-> 0, DecodeMetadata |-> 0]

\* what a call of a format's decode function gives back: the error, the
\* functions it invoked, whether it returned a Metadata, the reader after it
\* and the bytes the image decode function read
Outcome(err, inv, meta, rd, b) ==
  [err |-> err, invocations |-> inv, meta |-> meta, rd |-> rd, b |-> b]

\* the DataDecodeOptions records of an option list
dataOptions(o) == SelectSeq(o, LAMBDA op : op.kind = "DataDecodeOptions")

\* the errors the functions of a format return when they are called: decode
\* (for RegisterFormatExtended, the one decode function) and decodeConfig
StubErr(d, c) == [decode |-> d, decodeConfig |-> c]

\* variant: a DeferData image depth is taken as DecodeData
wrapper_deferDecodes(hasConfig, rd, o, e) ==
  LET d == dataOptions(o)
  IN IF Len(d) > 1 THEN Outcome(ErrOption, <<>>, FALSE, rd, None)
     ELSE IF Len(d) = 0 THEN Outcome("panic", <<>>, FALSE, rd, None)
     ELSE LET ro == d[1]
          IN IF ro.DecodeMetadata # DiscardData /\ ~hasConfig
             THEN Outcome("image: metdata decode requested with no metadata decoding function available",
                          <<>>, FALSE, rd, None)
             ELSE IF e.decode # NilErr
             THEN Outcome(e.decode, <<"decode">>, FALSE, ReadAll(rd).rd, Some(ReadAll(rd).b))
             ELSE IF ro.DecodeMetadata # DiscardData
             THEN Outcome(e.decodeConfig, <<"decode", "decodeConfig">>, e.decodeConfig = NilErr,
                          ReadAll(rd).rd, Some(ReadAll(rd).b))
             ELSE Outcome(NilErr, <<"decode">>, FALSE, ReadAll(rd).rd, Some(ReadAll(rd).b))

\* The function RegisterFormat builds around decode and decodeConfig, called
\* with reader rd and the option list o; hasConfig tells that decodeConfig is
\* not nil, e holds what decode and decodeConfig return as their errors. ro
\* stays nil when o holds no DataDecodeOptions, and ro.DecodeImage then
\* dereferences nil.
wrapper(hasConfig, rd, o, e) ==
  LET d == dataOptions(o)
  IN IF Len(d) > 1 THEN Outcome(ErrOption, <<>>, FALSE, rd, None)
     ELSE IF Len(d) = 0 THEN Outcome("panic", <<>>, FALSE, rd, None)
     ELSE LET ro == d[1]
          IN IF ro.DecodeImage = DeferData THEN Outcome(ErrOption, <<>>, FALSE, rd, None)
             ELSE IF ro.DecodeMetadata # DiscardData /\ ~hasConfig
             THEN Outcome("image: metdata decode requested with no metadata decoding function available",
                          <<>>, FALSE, rd, None)
             ELSE LET img  == ro.DecodeImage \in {DefaultDecodeOption, DecodeData}
                      inv1 == IF img THEN <<"decode">> ELSE <<>>
                      rd1  == IF img THEN ReadAll(rd).rd ELSE rd
                      b1   == IF img THEN Some(ReadAll(rd).b) ELSE None
                  IN IF img /\ e.decode # NilErr THEN Outcome(e.decode, inv1, FALSE, rd1, b1)
                     ELSE IF ro.DecodeMetadata # DiscardData
                     THEN Outcome(e.decodeConfig, inv1 \o <<"decodeConfig">>,
                                  e.decodeConfig = NilErr, ReadAll(rd1).rd, b1)
                     ELSE Outcome(NilErr, inv1, FALSE, rd1, b1)

\* RegisterFormat(name, magic, decode, decodeConfig) registers the wrapper
RegisterFormat(name, magic, hasConfig) ==
  /\ Len(atomicFormats) < MaxFormats
  /\ stream = None
  /\ atomicFormats' = Append(atomicFormats,
        [name |-> name, magic |-> magic,
         decode |-> IF hasConfig THEN "wrapper" ELSE "wrapperNoConfig"])
  /\ UNCHANGED <<regVars, format, app0Vars, app14Vars, arrived, gifVars, goVars, streamVars, ioVars, dfrVars, pngVars,
                 stream, sniffed, decoded, invocations, options, exifVars, xmpVars, iccVars,
                 segVars, structVars, phase, nrec, ret, obsVars>>

\* f.decode(ctx, rr, opts...) of a registered format: the wrapper of
\* RegisterFormat, or a function given to RegisterFormatExtended, which reads
\* the reader to its end and returns an image and a Metadata
callDecode(f, rd, o, e) ==
  IF f.decode = "wrapper" THEN wrapper(TRUE, rd, o, e)
  ELSE IF f.decode = "wrapperNoConfig" THEN wrapper(FALSE, rd, o, e)
  ELSE Outcome(e.decode, <<"decode">>, e.decode = NilErr, ReadAll(rd).rd, Some(ReadAll(rd).b))

\* The body the entrypoints share: rr := asReader(r); f := sniff(rr); the
\* test of f.decode (DecodeWithOptions and its callers; DecodeConfig calls
\* f.decode untested, and a call of a nil function panics); f.decode(rr, o).
\* DecodeConfig returns the empty format name with an error of f.decode, and
\* otherwise goes on to m.GetConfig(), which panics on a nil Metadata.
entrypoint(op, data, peeks, o, e, checked) ==
  /\ stream = None
  /\ LET rr == asReader(data, peeks)
         s  == sniff(atomicFormats, rr, 1)
         c  == callDecode(s.f, s.rd, o, e)
     IN /\ sniffed' = s.f
        /\ options' = o
        /\ IF s.f.decode = "nil"
           THEN /\ stream' = Some(s.rd)
                /\ decoded' = None
                /\ invocations' = <<>>
                /\ ret' = Ret(op, "", None, IF checked THEN ErrFormat ELSE "panic",
                              FALSE, "none", FALSE)
           ELSE /\ stream' = Some(c.rd)
                /\ decoded' = c.b
                /\ invocations' = c.invocations
                /\ ret' = Ret(op, IF ~checked /\ (c.err # NilErr \/ ~c.meta) THEN "" ELSE s.f.name, None,
                              IF ~checked /\ c.err = NilErr /\ ~c.meta THEN "panic" ELSE c.err,
                              c.invocations # <<>>, "none", FALSE)
  /\ UNCHANGED <<regVars, format, app0Vars, app14Vars, arrived, gifVars, goVars, streamVars, ioVars, dfrVars, pngVars,
                 atomicFormats, exifVars, xmpVars, iccVars, segVars, structVars,
                 phase, nrec, obsVars>>

\* DecodeWithOptions(ctx, r, opts...): r is a reader over data that has Peek
\* itself (peeks) or not
DecodeWithOptions(data, peeks, o, e) ==
  entrypoint("DecodeWithOptions", data, peeks, o, e, TRUE)

\* Decode(r)
Decode(data, peeks, e) ==
  entrypoint("Decode", data, peeks, <<DataDecodeOptions(DecodeData, DiscardData)>>, e, TRUE)

\* DecodeImage(ctx, r, opts...)
DecodeImage(data, peeks, o, e) ==
  entrypoint("DecodeImage", data, peeks,
             o \o <<DataDecodeOptions(DecodeData, DiscardData)>>, e, TRUE)

\* DecodeMetadata(ctx, r, opts...)
DecodeMetadata(data, peeks, o, e) ==
  entrypoint("DecodeMetadata", data, peeks,
             o \o <<DataDecodeOptions(DiscardData, DecodeData)>>, e, TRUE)

\* DecodeConfig(r)
DecodeConfig(data, peeks, e) ==
  entrypoint("DecodeConfig", data, peeks,
             <<DataDecodeOptions(DiscardData, DeferData)>>, e, FALSE)

(* ---- package png: deferred images ---- *)
\* a Deferred with nothing cached
NoDeferred == [ihdr |-> <<>>, plte |-> <<>>, trns |-> <<>>, idat |-> <<>>, img |-> None]

\* chunklen(b): the length of a cached chunk without its checksum
chunklen(b) == Len(b) - 4

\* What parseIHDR, parsePLTE, parsetRNS and parseIDAT return for a cached
\* chunk of the given payload length: a payload that starts with 255 stands
\* for one the parser rejects.
parseChunk(b, n) ==
  IF n >= 1 /\ b[1] = 255 THEN "png: invalid format" ELSE NilErr

\* the decoder's image after the four parse calls: parseIDAT builds it
decodedImage(d) ==
  IF Len(d.idat) # 0 THEN Some([pixels |-> Slice(d.idat, 0, chunklen(d.idat))]) ELSE None

\* the error of the first parse call that fails, in the order IHDR, PLTE,
\* tRNS, IDAT; empty PLTE, tRNS and IDAT are not parsed
parseAll(d) ==
  IF parseChunk(d.ihdr, chunklen(d.ihdr)) # NilErr THEN parseChunk(d.ihdr, chunklen(d.ihdr))
  ELSE IF Len(d.plte) > 0 /\ parseChunk(d.plte, chunklen(d.plte)) # NilErr
  THEN parseChunk(d.plte, chunklen(d.plte))
  ELSE IF Len(d.trns) # 0 /\ parseChunk(d.trns, chunklen(d.trns)) # NilErr
  THEN parseChunk(d.trns, chunklen(d.trns))
  ELSE IF Len(d.idat) # 0 /\ parseChunk(d.idat, chunklen(d.idat)) # NilErr
  THEN parseChunk(d.idat, chunklen(d.idat))
  ELSE NilErr

\* Deferred.Instantiate: the Deferred after the call, the image and the
\* error returned, and the number of parses it ran
instantiate(d) ==
  IF d.img # None THEN [d |-> d, img |-> d.img, err |-> NilErr, parses |-> 0]
  ELSE IF parseAll(d) # NilErr THEN [d |-> d, img |-> None, err |-> parseAll(d), parses |-> 1]
  ELSE [d |-> [d EXCEPT !.img = decodedImage(d)], img |-> decodedImage(d),
        err |-> NilErr, parses |-> 1]

Instantiate ==
  /\ phase = "deferred" /\ nrec < MaxCalls
  /\ LET i == instantiate(dfr)
     IN /\ dfr' = i.d
        /\ parsed' = parsed + i.parses
        /\ ret' = Ret("Instantiate", "image", i.img, i.err, i.parses > 0, "none", FALSE)
  /\ nrec' = nrec + 1
  /\ UNCHANGED <<regVars, format, app0Vars, app14Vars, arrived, gifVars, goVars, streamVars, ioVars, imgVars, pngVars,
                 exifVars, xmpVars, iccVars, segVars, structVars, phase, obsVars>>

\* ColorModel, Bounds and At: instantiate when no image is cached, return
\* the method's failure value on an error, else keep the image and call its
\* method, which panics when the image is nil
proxy(op) ==
  /\ phase = "deferred" /\ nrec < MaxCalls
  /\ IF dfr.img # None
     THEN /\ ret' = Ret(op, "image", dfr.img, NilErr, FALSE, "none", FALSE)
          /\ UNCHANGED <<dfr, parsed>>
     ELSE LET i == instantiate(dfr)
          IN /\ parsed' = parsed + i.parses
             /\ IF i.err # NilErr
                THEN /\ dfr' = i.d
                     /\ ret' = Ret(op, "image", None, "failure value", TRUE, "none", FALSE)
                ELSE /\ dfr' = [i.d EXCEPT !.img = i.img]
                     /\ ret' = Ret(op, "image", i.img,
                                   IF i.img = None THEN "panic" ELSE NilErr,
                                   TRUE, "none", FALSE)
  /\ nrec' = nrec + 1
  /\ UNCHANGED <<regVars, format, app0Vars, app14Vars, arrived, gifVars, goVars, streamVars, ioVars, imgVars, pngVars,
                 exifVars, xmpVars, iccVars, segVars, structVars, phase, obsVars>>

ColorModel == proxy("ColorModel")
Bounds == proxy("Bounds")
DeferredAt == proxy("At")

(* ---- package png: tIME, cHRM, zTXt and iTXt handlers ---- *)
\* the Metadata fields an encoder is given
Orig(text, tm, chroma, gamma) ==
  [Text |-> text, LastModified |-> tm, Chroma |-> chroma, Gamma |-> gamma]

NoOrig == Orig(<<>>, None, None, None)

\* a time.Time: the fields of its wall clock, its nanoseconds and the offset
\* of its zone in seconds east of UTC (0 for time.UTC)
TimeAt(y, mo, d, h, mi, s, ns, off) ==
  [year |-> y, month |-> mo, day |-> d, hour |-> h, minute |-> mi, sec |-> s,
   nsec |-> ns, zone |-> off]

\* a time.Time in UTC with whole seconds
Time(y, mo, d, h, mi, s) == TimeAt(y, mo, d, h, mi, s, 0, 0)

IsLeap(y) == (y % 4 = 0 /\ y % 100 # 0) \/ y % 400 = 0

DaysIn(y, m) ==
  IF m \in {1, 3, 5, 7, 8, 10, 12} THEN 31
  ELSE IF m \in {4, 6, 9, 11} THEN 30
  ELSE IF IsLeap(y) THEN 29 ELSE 28

\* day d of month m of year y, where d may lie outside the month
RECURSIVE NormDay(_, _, _)
NormDay(y, m, d) ==
  IF d < 1
  THEN LET py == IF m = 1 THEN y - 1 ELSE y
           pm == IF m = 1 THEN 12 ELSE m - 1
       IN NormDay(py, pm, d + DaysIn(py, pm))
  ELSE IF d > DaysIn(y, m)
  THEN NormDay(IF m = 12 THEN y + 1 ELSE y, IF m = 12 THEN 1 ELSE m + 1, d - DaysIn(y, m))
  ELSE [year |-> y, month |-> m, day |-> d]

\* time.Date(year, month, day, hour, min, sec, 0, time.UTC): values outside
\* their ranges are normalised, none is rejected
Date(y, mo, d, h, mi, s) ==
  LET total == h * 3600 + mi * 60 + s
      m0    == mo - 1
      nd    == NormDay(y + (m0 \div 12), (m0 % 12) + 1, d + (total \div 86400))
      rem   == total % 86400
  IN Time(nd.year, nd.month, nd.day, rem \div 3600, (rem % 3600) \div 60, rem % 60)

\* Time.UTC(): the same instant on the wall clock of UTC, its nanoseconds
\* as they are
UTC(t) ==
  [Date(t.year, t.month, t.day, t.hour, t.minute, t.sec - t.zone) EXCEPT !.nsec = t.nsec]

parseTIME(c) ==
  /\ phase = "walk" /\ format = "png"
  /\ IF Len(c.data) # 7
     THEN Walked("parseTIME", "time", "bad tIME length") /\ UNCHANGED LastModified
     ELSE IF readChunk(c) # NilErr
     THEN Walked("parseTIME", "time", readChunk(c)) /\ UNCHANGED LastModified
     ELSE LET b == c.data
          IN /\ LastModified' = Some(Date(b[1] * 256 + b[2], b[3], b[4], b[5], b[6], b[7]))
             /\ Walked("parseTIME", "time", verifyChecksum(c.crcOk))
  /\ UNCHANGED <<regVars, format, app0Vars, app14Vars, arrived, gifVars, goVars, streamVars, ioVars, imgVars,
                 dfrVars, Chroma, orig, exifVars, xmpVars, iccVars, segVars, structVars,
                 obsVars>>

\* the Chroma struct of eight values
ChromaOf(wx, wy, rx, ry, gx, gy, bx, by) ==
  [WhiteX |-> wx, WhiteY |-> wy, RedX |-> rx, RedY |-> ry,
   GreenX |-> gx, GreenY |-> gy, BlueX |-> bx, BlueY |-> by]

\* variant: the white point is read with its two values exchanged
parseCHRM_swapped(c) ==
  /\ phase = "walk" /\ format = "png"
  /\ IF Len(c.data) # 32
     THEN Walked("parseCHRM", "chroma", "bad cHRM length") /\ UNCHANGED Chroma
     ELSE IF readChunk(c) # NilErr
     THEN Walked("parseCHRM", "chroma", readChunk(c)) /\ UNCHANGED Chroma
     ELSE LET v(i) == BigEndianUint32(Slice(c.data, 4 * i, 4 * i + 4))
          IN /\ Chroma' = Some(ChromaOf(v(1), v(0), v(2), v(3), v(4), v(5), v(6), v(7)))
             /\ Walked("parseCHRM", "chroma", verifyChecksum(c.crcOk))
  /\ UNCHANGED <<regVars, format, app0Vars, app14Vars, arrived, gifVars, goVars, streamVars, ioVars, imgVars,
                 dfrVars, LastModified, orig, exifVars, xmpVars, iccVars, segVars,
                 structVars, obsVars>>

parseCHRM(c) ==
  /\ phase = "walk" /\ format = "png"
  /\ IF Len(c.data) # 32
     THEN Walked("parseCHRM", "chroma", "bad cHRM length") /\ UNCHANGED Chroma
     ELSE IF readChunk(c) # NilErr
     THEN Walked("parseCHRM", "chroma", readChunk(c)) /\ UNCHANGED Chroma
     ELSE LET v(i) == BigEndianUint32(Slice(c.data, 4 * i, 4 * i + 4))
          IN /\ Chroma' = Some(ChromaOf(v(0), v(1), v(2), v(3), v(4), v(5), v(6), v(7)))
             /\ Walked("parseCHRM", "chroma", verifyChecksum(c.crcOk))
  /\ UNCHANGED <<regVars, format, app0Vars, app14Vars, arrived, gifVars, goVars, streamVars, ioVars, imgVars,
                 dfrVars, LastModified, orig, exifVars, xmpVars, iccVars, segVars,
                 structVars, obsVars>>

parseZTXT(c) ==
  /\ phase = "walk" /\ format = "png"
  /\ IF readData(Len(c.data), availOf(c)).err # NilErr
     THEN Walked("parseZTXT", "text", readData(Len(c.data), availOf(c)).err) /\ UNCHANGED Text
     ELSE LET kv == decodeKeyValComp(c.data)
          IN CASE kv.st = "panic" -> Panicked("parseZTXT", "text") /\ UNCHANGED Text
               [] kv.st = "err" -> Walked("parseZTXT", "text", kv.err) /\ UNCHANGED Text
               [] OTHER ->
                    /\ Text' = Append(Text, TextEntry(kv.key, kv.val, "EtZtext", <<>>, <<>>))
                    /\ Walked("parseZTXT", "text", verifyChecksum(c.crcOk))
  /\ UNCHANGED <<regVars, format, extVars, exifVars, xmpVars, iccVars, segVars,
                 iccName, appX, Gamma, obsVars>>

ItxtEntry(key, lang, tkey, val, err) ==
  [key |-> key, lang |-> lang, tkey |-> tkey, val |-> val, err |-> err]

ItxtErr(err) == ItxtEntry(<<>>, <<>>, <<>>, <<>>, err)

\* decodeItxtEntry: key, NUL, compression flag, compression method, language
\* tag, NUL, translated keyword, NUL, value
decodeItxtEntry(blob) ==
  LET n == Len(blob)
      sep == IndexByte(blob, 0)
  IN IF sep = -1 THEN ItxtErr("no text separator found")
     ELSE IF sep + 3 >= n THEN ItxtErr("Invalid text entry body")
     ELSE LET ks0 == IndexByte(Slice(blob, sep + 3, n), 0)
              ks  == ks0 + sep + 3
          IN IF ks0 = -1 THEN ItxtErr("No language separator found")
             ELSE IF ks + 1 >= n THEN ItxtErr("language separator off the end of the entry")
             ELSE LET ts0 == IndexByte(Slice(blob, ks + 1, n), 0)
                      ts  == ts0 + ks + 1
                      raw == Slice(blob, ts + 1, n)
                      key == Slice(blob, 0, sep)
                      lang == Slice(blob, sep + 3, ks)
                      tkey == Slice(blob, ks + 1, ts)
                  IN IF ts0 = -1 THEN ItxtErr("No translated keyword separator found")
                     ELSE CASE At(blob, sep + 1) = 0 -> ItxtEntry(key, lang, tkey, raw, NilErr)
                            [] At(blob, sep + 1) = 1 ->
                                 IF At(blob, sep + 2) # 1 THEN ItxtErr("unknown compression flag")
                                 ELSE IF Inflate(raw).err # NilErr THEN ItxtErr(Inflate(raw).err)
                                 ELSE ItxtEntry(key, lang, tkey, Inflate(raw).val, NilErr)
                            [] OTHER -> ItxtErr("unknown compression flag")

parseITXT(c) ==
  /\ phase = "walk" /\ format = "png"
  /\ IF readData(Len(c.data), availOf(c)).err # NilErr
     THEN Walked("parseITXT", "text", readData(Len(c.data), availOf(c)).err) /\ UNCHANGED Text
     ELSE LET e == decodeItxtEntry(c.data)
          IN IF e.err # NilErr
             THEN Walked("parseITXT", "text", e.err) /\ UNCHANGED Text
             ELSE /\ Text' = Append(Text, TextEntry(e.key, e.val, "EtUtext", e.lang, e.tkey))
                  /\ Walked("parseITXT", "text", verifyChecksum(c.crcOk))
  /\ UNCHANGED <<regVars, format, extVars, exifVars, xmpVars, iccVars, segVars,
                 iccName, appX, Gamma, obsVars>>

(* ---- package png: the encoder and the walk over what it wrote ---- *)
\* a chunk of an encoded stream: its four-letter type and its payload
Record(type, data) == [type |-> type, data |-> data]

\* binary.BigEndian.PutUint32
PutUint32(v) == <<v \div 16777216, (v \div 65536) % 256, (v \div 256) % 256, v % 256>>

\* zlib compression of s, the inverse of Inflate: the header, s in one
\* stored block marked final, and the checksum of s
Deflate(s) ==
  <<ZlibHeader, 1, 1, Len(s) % 256, Len(s) \div 256, 255 - (Len(s) % 256),
    255 - (Len(s) \div 256)>>
  \o s
  \o <<Adler32(s, 1, 0).hi \div 256, Adler32(s, 1, 0).hi % 256,
       Adler32(s, 1, 0).lo \div 256, Adler32(s, 1, 0).lo % 256>>

\* A tIME payload is the seven bytes parseTIME reads: the year in two bytes,
\* then month, day, hour, minute and second. It has no room for a fraction of
\* a second, for a zone or for a year above 65535; the year is cut to its low
\* sixteen bits.
timeChunk(t) ==
  <<(t.year \div 256) % 256, t.year % 256, t.month, t.day, t.hour, t.minute, t.sec>>

\* the payloads an encoder may write for the time t: the fields of t as they
\* are, or those of t.UTC()
timeChunks(t) == { timeChunk(t), timeChunk(UTC(t)) }

\* the cHRM payload: eight 32-bit values, the white point first
chrmChunk(c) ==
  PutUint32(c.WhiteX) \o PutUint32(c.WhiteY) \o PutUint32(c.RedX) \o PutUint32(c.RedY) \o
  PutUint32(c.GreenX) \o PutUint32(c.GreenY) \o PutUint32(c.BlueX) \o PutUint32(c.BlueY)

\* the chunk of one text entry, in the layout the handler of its storage mode
\* reads: tEXt is key, NUL, value; zTXt is key, NUL, the compression byte and
\* the compressed value; iTXt is key, NUL, two compression bytes, language
\* tag, NUL, translated key, NUL, value
textChunk(e) ==
  CASE e.EntryType = "EtText" -> Record("tEXt", e.Key \o <<0>> \o e.Value)
    [] e.EntryType = "EtZtext" -> Record("zTXt", e.Key \o <<0, 1>> \o Deflate(e.Value))
    [] OTHER -> Record("iTXt", e.Key \o <<0, 0, 0>> \o e.LanguageTag \o <<0>> \o
                               e.TranslatedKey \o <<0>> \o e.Value)

\* the metadata chunks of a stream: one per populated structural field in a
\* fixed order, then one per text entry in the order of the list
metadataChunks(m, tm) ==
  (IF m.Chroma = None THEN <<>> ELSE <<Record("cHRM", chrmChunk(m.Chroma[1]))>>) \o
  (IF m.Gamma = None THEN <<>> ELSE <<Record("gAMA", PutUint32(m.Gamma[1]))>>) \o
  (IF m.LastModified = None THEN <<>> ELSE <<Record("tIME", tm)>>) \o
  [i \in 1..Len(m.Text) |-> textChunk(m.Text[i])]

\* EncodeExtended with the Metadata as write option: validation first, then
\* the chunks are written
EncodeExtended ==
  /\ phase = "built" /\ format = "png"
  /\ LET err == validateMetadata(orig.Text)
     IN /\ ret' = Ret("encode", "metadata", None, err, FALSE, "none", FALSE)
        /\ \E tm \in (IF orig.LastModified = None THEN {<<>>}
                      ELSE timeChunks(orig.LastModified[1])) :
              out' = IF err = NilErr THEN out \o metadataChunks(orig, tm) ELSE out
        /\ phase' = IF err = NilErr THEN "written" ELSE "failed"
  /\ UNCHANGED <<regVars, format, app0Vars, app14Vars, arrived, gifVars, goVars, streamVars, imgVars, pngVars,
                 dfrVars, exifVars, xmpVars, iccVars, segVars, structVars, nrec, obsVars>>

\* DecodeExtended on the written stream: a new decoder with an empty Metadata
\* starts its walk at the first chunk
DecodeExtended ==
  /\ phase = "written" /\ format = "png"
  /\ phase' = "walk" /\ nrec' = 0
  /\ Text' = <<>> /\ Gamma' = None /\ LastModified' = None /\ Chroma' = None
  /\ ret' = Ret("decode", "none", None, NilErr, FALSE, "none", FALSE)
  /\ UNCHANGED <<regVars, format, app0Vars, app14Vars, arrived, gifVars, goVars, streamVars, ioVars, imgVars,
                 dfrVars, orig, exifVars, xmpVars, iccVars, segVars, iccName, appX, obsVars>>

\* the walker is at a chunk of the given type
atChunk(type) == phase = "walk" /\ nrec < Len(out) /\ out[nrec + 1].type = type

\* the chunk the walker is at, read whole and with the checksum the encoder
\* computed
nextChunk == Chunk(out[nrec + 1].data, FALSE, TRUE)

\* the walker is at the end of the stream
atEnd == nrec = Len(out)

(* ---- the walker under read options ---- *)
\* DamageHandlingOptions{SkipDamagedData: skip}
DamageHandling(skip) ==
  [kind |-> "DamageHandlingOptions", DecodeImage |-> 0, DecodeMetadata |-> 0,
   SkipDamagedData |-> skip]

\* the read options ask for damaged sections to be skipped
SkipDamagedData(o) ==
  \E i \in 1..Len(o) : o[i].kind = "DamageHandlingOptions" /\ o[i].SkipDamagedData

\* a decode call with read options o starts its walk
startDecode(o) ==
  /\ phase = "start"
  /\ phase' = "walk"
  /\ options' = o
  /\ ret' = Ret("decode", "none", None, NilErr, FALSE, "none", FALSE)
  /\ UNCHANGED <<regVars, format, app0Vars, app14Vars, arrived, gifVars, goVars, streamVars, ioVars, dfrVars,
                 pngVars, atomicFormats, stream, sniffed, decoded, invocations,
                 exifVars, xmpVars, iccVars, segVars, structVars, nrec, obsVars>>

\* with SkipDamagedData set, a record whose handler returned an error is
\* passed over and the walk goes on with the next record
skipDamaged ==
  /\ phase = "failed" /\ SkipDamagedData(options)
  /\ phase' = "walk"
  /\ ret' = Ret("skipDamaged", ret.kind, None, NilErr, FALSE, "none", FALSE)
  /\ UNCHANGED <<regVars, format, extVars, exifVars, xmpVars, iccVars, segVars,
                 structVars, nrec, obsVars>>

(* ---- package gif: comment extension blocks ---- *)
\* decoder.readBlock on stream s at offset pos: the size byte n and the n
\* data bytes after it; n = 0 with no error is the terminator block, and a
\* stream that ends before the size byte or inside the data is an error
blockAt(s, pos) ==
  IF pos >= Len(s) THEN [n |-> 0, data |-> <<>>, err |-> "EOF", next |-> pos]
  ELSE LET n == At(s, pos) IN
       IF n = 0 THEN [n |-> 0, data |-> <<>>, err |-> NilErr, next |-> pos + 1]
       ELSE IF pos + 1 + n > Len(s)
       THEN [n |-> 0, data |-> <<>>, err |-> "unexpected EOF", next |-> Len(s)]
       ELSE [n |-> n, data |-> Slice(s, pos + 1, pos + 1 + n), err |-> NilErr,
             next |-> pos + 1 + n]

RECURSIVE commentLoop(_, _, _)
\* the loop of readComment from offset pos with c collected so far: every
\* block readBlock returns without error is appended to c, the terminator
\* (n = 0) included, and the loop is left only when readBlock fails
commentLoop(s, pos, c) ==
  LET b == blockAt(s, pos) IN
  IF b.err # NilErr THEN [err |-> b.err, pos |-> b.next, c |-> c]
  ELSE commentLoop(s, b.next, c \o b.data)

\* readComment on the stream s that follows the comment label: the loop
\* returns readBlock's error; the append to Comments after the loop is
\* never reached
readComment(s) ==
  /\ phase = "walk" /\ format = "gif"
  /\ LET r == commentLoop(s, 0, <<>>)
     IN /\ readOff' = r.pos
        /\ Comments' = Comments
        /\ Returned("readComment", r.err)
  /\ UNCHANGED <<regVars, format, app0Vars, app14Vars, arrived, Extensions, loopCount, blocks,
                 ioVars, goVars, dfrVars, imgVars, pngVars, exifVars, xmpVars,
                 iccVars, segVars, structVars, obsVars>>

(* ---- package image: concurrent callers of the format list ---- *)
\* everything the steps of RegisterFormatExtended and sniff leave alone
besideFormats ==
  <<regVars, format, exifVars, xmpVars, iccVars, segVars, structVars, phase, nrec, ret,
    obsVars, app0Vars, app14Vars, arrived, gifVars, ioVars, dfrVars, pngVars,
    streamVars, stream, decoded, invocations, options>>

\* the format the i-th call of goroutine g registers
formatOf(g, i) == [name |-> g, magic |-> <<i>>, decode |-> g]

\* variant: the goroutine goes on without waiting for the mutex
Lock_nowait(g) ==
  /\ pc[g] = "idle" /\ g \in Registrars /\ registered[g] < MaxRegistrations
  /\ formatsMu' = Some(g)
  /\ pc' = [pc EXCEPT ![g] = "load"]
  /\ UNCHANGED <<atomicFormats, sniffed, loaded, registered, besideFormats>>

\* RegisterFormatExtended, formatsMu.Lock(): waits until the mutex is free
Lock(g) ==
  /\ pc[g] = "idle" /\ g \in Registrars /\ registered[g] < MaxRegistrations
  /\ formatsMu = None
  /\ formatsMu' = Some(g)
  /\ pc' = [pc EXCEPT ![g] = "load"]
  /\ UNCHANGED <<atomicFormats, sniffed, loaded, registered, besideFormats>>

\* formats, _ := atomicFormats.Load().([]format)
Load(g) ==
  /\ pc[g] = "load"
  /\ loaded' = [loaded EXCEPT ![g] = atomicFormats]
  /\ pc' = [pc EXCEPT ![g] = "store"]
  /\ UNCHANGED <<atomicFormats, sniffed, formatsMu, registered, besideFormats>>

\* atomicFormats.Store(append(formats, format{name, magic, decode}))
Store(g) ==
  /\ pc[g] = "store"
  /\ atomicFormats' = Append(loaded[g], formatOf(g, registered[g] + 1))
  /\ pc' = [pc EXCEPT ![g] = "unlock"]
  /\ UNCHANGED <<sniffed, formatsMu, loaded, registered, besideFormats>>

\* formatsMu.Unlock(), and the call returns
Unlock(g) ==
  /\ pc[g] = "unlock"
  /\ formatsMu' = None
  /\ registered' = [registered EXCEPT ![g] = registered[g] + 1]
  /\ pc' = [pc EXCEPT ![g] = "idle"]
  /\ UNCHANGED <<atomicFormats, sniffed, loaded, besideFormats>>

\* sniff, first statement: formats, _ := atomicFormats.Load().([]format)
sniffLoad(g) ==
  /\ pc[g] = "idle" /\ g \in Sniffers
  /\ loaded' = [loaded EXCEPT ![g] = atomicFormats]
  /\ pc' = [pc EXCEPT ![g] = "range"]
  /\ UNCHANGED <<atomicFormats, sniffed, formatsMu, registered, besideFormats>>

\* sniff, the loop over the loaded list and the return
sniffRange(g, data) ==
  /\ pc[g] = "range"
  /\ sniffed' = sniff(loaded[g], asReader(data, TRUE), 1).f
  /\ pc' = [pc EXCEPT ![g] = "idle"]
  /\ UNCHANGED <<atomicFormats, formatsMu, loaded, registered, besideFormats>>

(* ---- inputs ---- *)
\* decoders registered per kind in the field life-cycle specification
FieldDecoders(k) ==
  CASE k = "icc" -> {"decA", "decFail", "decNil"}
    [] k = "exif" -> {"decA"}
    [] k = "xmp" -> {"decFail"}

\* the value a caller passes to SetEXIF, SetXMP or SetIcc: nil or a value
CallerValue == Some([by |-> "caller", data |-> <<>>])
SetValues(k) ==
  CASE k = "icc" -> {None, CallerValue}
    [] k = "exif" -> {CallerValue}
    [] k = "xmp" -> {None}

\* iCCP payloads: name NUL method data
IccpData ==
  { <<65, 0, 0, 7>>, <<65, 0, 1>> \o Deflate(<<7>>), <<65, 0, 1, 9>>, <<65, 0, 2, 7>>,
    <<65>>, <<65, 0>>, <<0, 0>> }

\* tEXt payloads: key NUL value
TextData == { <<75, 0, 86>>, <<75>> }

\* gAMA payloads
GamaData == { <<0, 0, 1, 2>>, <<1>> }

\* raw tag-table / packet bytes
CaptureData == { <<1>> }

Chunks(D) ==
  { Chunk(d, FALSE, c) : d \in D, c \in BOOLEAN } \cup { Chunk(<<75, 0>>, TRUE, TRUE) }

IccSegment(index, count, data) ==
  Segment(iccMetadata \o <<0, index, count>> \o data, FALSE)

\* APP2 segments of the field life-cycle specification
FieldSegments ==
  { IccSegment(1, 1, <<7>>), IccSegment(1, 2, <<7>>), IccSegment(2, 2, <<8>>),
    Segment(<<88, 0, 5>>, FALSE) }

(* ---- the field life-cycle of one Metadata ---- *)
InitRegistry ==
  /\ exifDecoder = NoFn /\ xmpDecoder = NoFn /\ iccDecoder = NoFn
  /\ exifEncoder = NoFn /\ xmpEncoder = NoFn /\ iccEncoder = NoFn
  /\ lastReg = [exifDecoder |-> NoFn, xmpDecoder |-> NoFn, iccDecoder |-> NoFn,
                exifEncoder |-> NoFn, xmpEncoder |-> NoFn, iccEncoder |-> NoFn]

\* no Deferred image has been made
InitNoDeferred == dfr = NoDeferred /\ parsed = 0

\* the png fields of a new Metadata; nothing has been handed to an encoder
InitPngFields == LastModified = None /\ Chroma = None /\ orig = NoOrig

\* &Metadata{} of a new decoder, and package image before any call
InitFields ==
  /\ exif = None /\ exifDecodeErr = NilErr /\ rawExif = None
  /\ xmp = None /\ xmpDecodeErr = NilErr /\ rawXmp = None
  /\ icc = None /\ iccDecodeErr = NilErr /\ rawIcc = None /\ iccName = <<>>
  /\ iccSegmentCount = 0 /\ iccSegmentsSeen = 0
  /\ appX = <<>> /\ Text = <<>> /\ Gamma = None
  /\ nrec = 0
  /\ ret = NoRet
  /\ calls = [k \in Kinds |-> 0]
  /\ firstRet = [k \in Kinds |-> None]
  /\ fed = <<>>
  /\ jfif = FALSE /\ Version = 0 /\ Units = 0 /\ XDensity = 0 /\ YDensity = 0
  /\ XThumbnail = 0 /\ YThumbnail = 0 /\ Thumbnail = None
  /\ adobeTransformValid = FALSE /\ adobeTransform = 0
  /\ Comments = <<>> /\ Extensions = <<>> /\ loopCount = 0
  /\ arrived = <<>> /\ blocks = <<>>
  /\ out = <<>>
  /\ InitImage
  /\ InitGo
  /\ InitStream

\* &Metadata{} of a new decoder
InitMetadata == InitFields /\ InitNoDeferred /\ InitPngFields

Init ==
  /\ InitRegistry
  /\ InitMetadata
  /\ format \in {"png", "jpeg", "gif"}
  /\ phase = "walk"

Next ==
  \/ \E d \in FieldDecoders("exif") : RegisterEXIFDecoder(d)
  \/ \E d \in FieldDecoders("xmp") : RegisterXMPDecoder(d)
  \/ \E d \in FieldDecoders("icc") : RegisterICCDecoder(d)
  \/ nrec < MaxChunks /\ \E c \in Chunks(IccpData) : parseICCP(c)
  \/ nrec < MaxChunks /\ \E k \in Kinds, b \in CaptureData : CaptureRaw(k, b)
  \/ nrec < MaxChunks /\ \E s \in FieldSegments : processApp2(s)
  \/ EndWalk
  \/ EXIF
  \/ XMP
  \/ ICC
  \/ \E v \in SetValues("exif") : SetEXIF(v)
  \/ \E v \in SetValues("xmp") : SetXMP(v)
  \/ \E v \in SetValues("icc") : SetIcc(v)

Spec == Init /\ [][Next]_vars

(* ---- one png Metadata with its structural fields ---- *)
InitPng ==
  /\ InitRegistry
  /\ InitMetadata
  /\ format = "png"
  /\ phase = "walk"

NextPng ==
  \/ RegisterEXIFDecoder("decA")
  \/ RegisterXMPDecoder("decA")
  \/ RegisterICCDecoder("decA")
  \/ nrec < MaxChunks /\ \E c \in Chunks(IccpData) : parseICCP(c)
  \/ nrec < MaxChunks /\ \E c \in Chunks(TextData) : parseTEXT(c)
  \/ nrec < MaxChunks /\ \E c \in Chunks(GamaData) : parseGAMA(c)
  \/ nrec < MaxChunks /\ \E k \in Kinds, b \in CaptureData : CaptureRaw(k, b)
  \/ EndWalk
  \/ EXIF
  \/ XMP
  \/ ICC
  \/ \E v \in SetValues("exif") : SetEXIF(v)
  \/ \E v \in SetValues("xmp") : SetXMP(v)
  \/ \E v \in SetValues("icc") : SetIcc(v)

SpecPng == InitPng /\ [][NextPng]_vars

(* ---- the registry alone: registrations and direct sub-codec calls ---- *)
CallDecodeEXIF(b) ==
  /\ LET r == DecodeEXIF(b)
     IN ret' = Ret("decode", "exif", r.val, r.err, r.invoked, "none",
                   ret.op = "decode" /\ ret.kind = "exif" /\ ret.val # r.val)
  /\ UNCHANGED <<regVars, format, extVars, exifVars, xmpVars, iccVars, segVars, structVars,
                 phase, nrec, obsVars>>

CallDecodeXMP(b) ==
  /\ LET r == DecodeXMP(b)
     IN ret' = Ret("decode", "xmp", r.val, r.err, r.invoked, "none",
                   ret.op = "decode" /\ ret.kind = "xmp" /\ ret.val # r.val)
  /\ UNCHANGED <<regVars, format, extVars, exifVars, xmpVars, iccVars, segVars, structVars,
                 phase, nrec, obsVars>>

CallDecodeICC(b) ==
  /\ LET r == DecodeICC(b)
     IN ret' = Ret("decode", "icc", r.val, r.err, r.invoked, "none",
                   ret.op = "decode" /\ ret.kind = "icc" /\ ret.val # r.val)
  /\ UNCHANGED <<regVars, format, extVars, exifVars, xmpVars, iccVars, segVars, structVars,
                 phase, nrec, obsVars>>

CallEncodeEXIF(v) ==
  /\ LET r == EncodeEXIF(v)
     IN ret' = Ret("encode", "exif", r.val, r.err, r.invoked, "none", FALSE)
  /\ UNCHANGED <<regVars, format, extVars, exifVars, xmpVars, iccVars, segVars, structVars,
                 phase, nrec, obsVars>>

CallEncodeXMP(v) ==
  /\ LET r == EncodeXMP(v)
     IN ret' = Ret("encode", "xmp", r.val, r.err, r.invoked, "none", FALSE)
  /\ UNCHANGED <<regVars, format, extVars, exifVars, xmpVars, iccVars, segVars, structVars,
                 phase, nrec, obsVars>>

CallEncodeICC(v) ==
  /\ LET r == EncodeICC(v)
     IN ret' = Ret("encode", "icc", r.val, r.err, r.invoked, "none", FALSE)
  /\ UNCHANGED <<regVars, format, extVars, exifVars, xmpVars, iccVars, segVars, structVars,
                 phase, nrec, obsVars>>

\* functions passed to Register calls, nil included
RegDecoders == DecoderFns \cup {NoFn}
RegEncoders == EncoderFns \cup {NoFn}

InitReg ==
  /\ InitRegistry
  /\ InitMetadata
  /\ format = "none"
  /\ phase = "init"

NextReg ==
  \/ \E d \in RegDecoders : RegisterEXIFDecoder(d)
  \/ \E d \in RegDecoders : RegisterXMPDecoder(d)
  \/ \E d \in RegDecoders : RegisterICCDecoder(d)
  \/ \E e \in RegEncoders : RegisterEXIFEncoder(e)
  \/ \E e \in RegEncoders : RegisterXMPEncoder(e)
  \/ \E e \in RegEncoders : RegisterICCEncoder(e)
  \/ \E b \in CaptureData : CallDecodeEXIF(b)
  \/ \E b \in CaptureData : CallDecodeXMP(b)
  \/ \E b \in CaptureData : CallDecodeICC(b)
  \/ CallEncodeEXIF(CallerValue[1])
  \/ CallEncodeXMP(CallerValue[1])
  \/ CallEncodeICC(CallerValue[1])

SpecRegistry == InitReg /\ [][NextReg]_vars

(* ---- one jpeg walk over APP2 segments ---- *)
\* payloads carried by the ICC segment of index i
SegData(i) == { <<>>, <<10 + i>> }

JpegSegments ==
  UNION { { IccSegment(i, c, d) : c \in 0..MaxCount, d \in SegData(i) } : i \in 1..MaxIndex }
  \cup { Segment(<<>>, FALSE), Segment(<<>>, TRUE), Segment(iccMetadata, FALSE),
         Segment(iccMetadata \o <<0>>, FALSE), Segment(iccMetadata \o <<0, 1>>, FALSE),
         Segment(<<88, 0, 5>>, FALSE) }

InitJpeg ==
  /\ InitRegistry
  /\ InitMetadata
  /\ format = "jpeg"
  /\ phase = "walk"

NextJpeg ==
  \/ nrec < MaxSegments /\ \E s \in JpegSegments : processApp2(s)
  \/ EndWalk
  \/ \E d \in {"decA"} : RegisterICCDecoder(d)
  \/ ICC

SpecJpeg == InitJpeg /\ [][NextJpeg]_vars

(* ---- one jpeg walk over APPn segments of every marker ---- *)
app3Marker == 227

\* markers the dispatcher hands to processUnknownApp
UnknownMarkers == {app3Marker, app15Marker}

\* APPn payloads: an unrecognised tag and a payload without NUL
UnknownSegments == { Segment(<<88, 0, 5>>, FALSE), Segment(<<88>>, FALSE) }

\* APP0 payloads: also JFIF headers without and with a thumbnail size, and a
\* truncated stream
App0Segments ==
  UnknownSegments \cup
  { Segment(jfifMetadata \o <<0>>, FALSE),
    Segment(jfifMetadata \o <<0, 1, 2, 1, 0, 72, 0, 72, 0, 0>>, FALSE),
    Segment(<<>>, TRUE) }

\* APP2 payloads: also an ICC segment
App2Segments == UnknownSegments \cup { IccSegment(1, 1, <<7>>) }

\* APP14 payloads: also an Adobe segment
App14Segments ==
  UnknownSegments \cup { Segment(adobeMetadata \o <<0, 100, 0, 0, 0, 0, 1>>, FALSE) }

\* bytes the scratch buffer may hold at offset 7
TmpBytes == {0, 1}

InitAppX ==
  /\ InitRegistry
  /\ InitMetadata
  /\ format = "jpeg"
  /\ phase = "walk"

NextAppX ==
  \/ nrec < MaxAppSegments /\ \E s \in App0Segments, t \in TmpBytes : processApp0(s, t)
  \/ nrec < MaxAppSegments /\ \E s \in UnknownSegments : processApp1(s)
  \/ nrec < MaxAppSegments /\ \E s \in App2Segments : processApp2(s)
  \/ nrec < MaxAppSegments /\ \E s \in App14Segments : processApp14(s)
  \/ nrec < MaxAppSegments /\ \E m \in UnknownMarkers, s \in UnknownSegments : processUnknownApp(m, s)
  \/ EndWalk

SpecAppX == InitAppX /\ [][NextAppX]_vars

(* ---- one gif walk over application extension blocks ---- *)
\* an application identifier that is not NETSCAPE, and another one
appIdA == <<65, 66, 67, 68, 69, 70, 71, 72>>
appIdB == <<66, 66, 67, 68, 69, 70, 71, 72>>

GifBlocks ==
  { AppBlock(11, id \o netscapeAuth, subs, "none") :
      id \in {netscapeId, appIdA, appIdB}, subs \in { <<>>, <<<<1, 2, 0>>>>, <<<<3>>, <<4>>>> } }
  \cup { AppBlock(8, appIdA, <<<<5>>>>, "none"), AppBlock(3, <<65, 66, 67>>, <<>>, "none"),
         AppBlock(0, <<>>, <<>>, "size"), AppBlock(11, <<>>, <<>>, "body"),
         AppBlock(11, appIdA \o netscapeAuth, <<>>, "sub") }

InitGif ==
  /\ InitRegistry
  /\ InitMetadata
  /\ format = "gif"
  /\ phase = "walk"

NextGif ==
  \/ nrec < MaxBlocks /\ \E b \in GifBlocks : readApplication(b)
  \/ nrec < MaxBlocks /\ \E b \in CaptureData : CaptureRaw("xmp", b)
  \/ EndWalk
  \/ RegisterXMPDecoder("decA")
  \/ XMP

SpecGif == InitGif /\ [][NextGif]_vars

(* ---- a Metadata handed to the write side ---- *)
\* n bytes c
Pad(n, c) == [i \in 1..n |-> c]

\* payloads: short, of the maximum size, one byte longer
WritePayloads == { <<1>>, Pad(maxSegmentSize, 0), Pad(maxSegmentSize + 1, 0) }

\* lists stored under one marker
WriteLists ==
  { <<>> } \cup { <<p>> : p \in WritePayloads }
  \cup { <<<<1>>, p>> : p \in WritePayloads } \cup { <<Pad(maxSegmentSize + 1, 0), <<1>>>> }

\* markers just outside and at both ends of the application-marker range
WriteMarkers == { app0Marker - 1, app0Marker, app15Marker, app15Marker + 1 }

\* extension stores of no, one and two keys
WriteStores ==
  { <<>> }
  \cup { (k :> l) : k \in WriteMarkers, l \in WriteLists }
  \cup { (k1 :> <<p1>>) @@ (k2 :> <<p2>>) :
           k1 \in { app0Marker - 1, app0Marker }, k2 \in { app15Marker, app15Marker + 1 },
           p1 \in { <<1>>, Pad(maxSegmentSize + 1, 0) },
           p2 \in { <<1>>, Pad(maxSegmentSize + 1, 0) } }

\* text keys: empty, one byte, of the maximum length, one byte longer, with a
\* NUL inside, and both too long and with a NUL
WriteKeys ==
  { <<>>, <<75>>, Pad(MaxKeyLength, 75), Pad(MaxKeyLength + 1, 75), <<75, 0, 76>>,
    Pad(MaxKeyLength, 75) \o <<0>> }

WriteTexts ==
  { <<>> } \cup { <<TextEntry(k, <<86>>, "EtText", <<>>, <<>>)>> : k \in WriteKeys }
  \cup { <<TextEntry(k1, <<86>>, "EtText", <<>>, <<>>), TextEntry(k2, <<>>, "EtText", <<>>, <<>>)>>
           : k1 \in WriteKeys, k2 \in WriteKeys }

InitWrite ==
  /\ InitRegistry
  /\ exif = None /\ exifDecodeErr = NilErr /\ rawExif = None
  /\ xmp = None /\ xmpDecodeErr = NilErr /\ rawXmp = None
  /\ icc = None /\ iccDecodeErr = NilErr /\ rawIcc = None /\ iccName = <<>>
  /\ iccSegmentCount = 0 /\ iccSegmentsSeen = 0
  /\ Gamma = None
  /\ nrec = 0 /\ ret = NoRet
  /\ calls = [k \in Kinds |-> 0] /\ firstRet = [k \in Kinds |-> None] /\ fed = <<>>
  /\ jfif = FALSE /\ Version = 0 /\ Units = 0 /\ XDensity = 0 /\ YDensity = 0
  /\ XThumbnail = 0 /\ YThumbnail = 0 /\ Thumbnail = None
  /\ adobeTransformValid = FALSE /\ adobeTransform = 0
  /\ Comments = <<>> /\ Extensions = <<>> /\ loopCount = 0
  /\ arrived = <<>> /\ blocks = <<>>
  /\ out = <<>>
  /\ InitImage
  /\ InitGo
  /\ InitStream
  /\ InitNoDeferred
  /\ InitPngFields
  /\ phase = "built"
  /\ \/ format = "jpeg" /\ appX \in WriteStores /\ Text = <<>>
     \/ format = "png" /\ Text \in WriteTexts /\ appX = <<>>

NextWrite ==
  \/ Validate
  \/ ValidateMetadata

SpecWrite == InitWrite /\ [][NextWrite]_vars

(* ---- package image: registrations, then one decode call ---- *)
FormatNames == {"a", "b"}
Magics == { <<>>, <<1>>, <<Wildcard, 2>>, <<1, 2, 1>> }
StreamBytes == {1, 2}
MaxStream == 3
Streams == UNION { [1..n -> StreamBytes] : n \in 0..MaxStream }

InitImg ==
  /\ InitRegistry
  /\ InitMetadata
  /\ format = "none"
  /\ phase = "load"

NextImg ==
  \/ \E name \in FormatNames, magic \in Magics : RegisterFormatExtended(name, magic)
  \/ \E data \in Streams, peeks \in BOOLEAN : DecodeWithOptions(data, peeks, <<>>, StubErr(NilErr, NilErr))

SpecImg == InitImg /\ [][NextImg]_vars

(* ---- package image: registrations, then one call of an entrypoint ---- *)
\* option lists: none, every DataDecodeOptions, and lists that hold two
\* records of one kind
OptionLists ==
  { <<>> }
  \cup { <<DataDecodeOptions(i, m)>> : i \in 0..3, m \in 0..3 }
  \cup { <<LimitOptions>>,
         <<DataDecodeOptions(DecodeData, DiscardData), DataDecodeOptions(DecodeData, DiscardData)>>,
         <<LimitOptions, LimitOptions, DataDecodeOptions(DecodeData, DiscardData)>>,
         <<DamageHandlingOptions, DataDecodeOptions(DecodeData, DecodeData), DamageHandlingOptions>>,
         <<ImageTransformOptions, ImageTransformOptions, DataDecodeOptions(DecodeData, DiscardData)>>,
         <<LimitOptions, DamageHandlingOptions, ImageTransformOptions,
           DataDecodeOptions(DecodeData, DiscardData)>> }

\* what the image decode function of the format returns as its error
StubErrs == { StubErr(d, c) : d \in { NilErr, "decode failed" }, c \in { NilErr, "config failed" } }

EntryStreams == { <<>>, <<1>>, <<1, 2>>, <<2, 2>> }

InitEntry ==
  /\ InitRegistry
  /\ InitMetadata
  /\ format = "none"
  /\ phase = "load"

NextEntry ==
  \/ \E hasConfig \in BOOLEAN : RegisterFormat("a", <<1>>, hasConfig)
  \/ RegisterFormatExtended("b", <<Wildcard, 2>>)
  \/ \E data \in EntryStreams, peeks \in BOOLEAN, o \in OptionLists, e \in StubErrs :
        DecodeWithOptions(data, peeks, o, e)
  \/ \E data \in EntryStreams, peeks \in BOOLEAN, e \in StubErrs : Decode(data, peeks, e)
  \/ \E data \in EntryStreams, peeks \in BOOLEAN, o \in OptionLists, e \in StubErrs :
        DecodeImage(data, peeks, o, e)
  \/ \E data \in EntryStreams, peeks \in BOOLEAN, o \in OptionLists, e \in StubErrs :
        DecodeMetadata(data, peeks, o, e)
  \/ \E data \in EntryStreams, peeks \in BOOLEAN, e \in StubErrs : DecodeConfig(data, peeks, e)

SpecEntry == InitEntry /\ [][NextEntry]_vars

(* ---- package png: one Deferred image and calls on it ---- *)
\* cached chunks: one payload byte and four checksum bytes
GoodChunk == <<7, 161, 162, 163, 164>>
BadChunk == <<255, 171, 172, 173, 174>>

Deferreds ==
  { [ihdr |-> h, plte |-> p, trns |-> t, idat |-> i, img |-> None] :
      h \in {GoodChunk, BadChunk}, p \in {<<>>, GoodChunk, BadChunk},
      t \in {<<>>, GoodChunk}, i \in {<<>>, GoodChunk, BadChunk} }

InitDeferred ==
  /\ InitRegistry
  /\ InitFields
  /\ InitPngFields
  /\ dfr \in Deferreds /\ parsed = 0
  /\ format = "png"
  /\ phase = "deferred"

NextDeferred ==
  \/ Instantiate
  \/ ColorModel
  \/ Bounds
  \/ DeferredAt

SpecDeferred == InitDeferred /\ [][NextDeferred]_vars

(* ---- package jpeg: JFIF segments with a thumbnail ---- *)
ThumbDims == 0..2
MaxPixelBytes == 13

\* n pixel bytes 1, 2, ..., n
PixelBytes(n) == [i \in 1..n |-> i]

\* a JFIF APP0 payload: tag, version 1.2, units, densities 72x72, the
\* thumbnail dimensions and the bytes that follow them
JfifSegment(xt, yt, pix) ==
  Segment(jfifMetadata \o <<0, 1, 2, 1, 0, 72, 0, 72, xt, yt>> \o pix, FALSE)

JfifSegments ==
  { JfifSegment(xt, yt, PixelBytes(n)) : xt \in ThumbDims, yt \in ThumbDims, n \in 0..MaxPixelBytes }

InitJfif ==
  /\ InitRegistry
  /\ InitMetadata
  /\ format = "jpeg"
  /\ phase = "walk"

NextJfif ==
  \/ nrec < MaxJfif /\ \E s \in JfifSegments, t \in TmpBytes : processApp0(s, t)
  \/ EndWalk

SpecJfif == InitJfif /\ [][NextJfif]_vars

(* ---- package png: tIME chunks ---- *)
\* tIME payloads: year 2020 or 2021, then month, day, hour, minute and second
\* within and just outside their ranges
TimeData ==
  { <<7, yl, mo, d, h, mi, s>> :
      yl \in {228, 229}, mo \in {0, 2, 12, 13}, d \in {0, 29, 31, 32},
      h \in {23, 24}, mi \in {59, 60}, s \in {60, 61} }
  \cup { <<7, 228, 6, 15, 12, 30, 45>>, <<7, 228, 6>> }

InitTime ==
  /\ InitRegistry
  /\ InitMetadata
  /\ format = "png"
  /\ phase = "walk"

NextTime ==
  \/ nrec < MaxTimes /\ \E c \in Chunks(TimeData) : parseTIME(c)
  \/ EndWalk

SpecTime == InitTime /\ [][NextTime]_vars

(* ---- package png: a Metadata encoded, then decoded ---- *)
ComposerKey == <<67, 111, 109, 112, 111, 115, 101, 114>>
TestValue == <<84, 101, 115, 116>>

\* text entries of the three storage modes, with an empty and a non-empty
\* value, with and without language tag and translated key, and one entry
\* with an empty key
RoundTripEntries ==
  { TextEntry(ComposerKey, v, t, <<>>, <<>>) : v \in {<<>>, TestValue}, t \in {"EtText", "EtZtext"} }
  \cup { TextEntry(ComposerKey, v, "EtUtext", l, k) :
           v \in {<<>>, TestValue}, l \in {<<>>, <<106, 97>>}, k \in {<<>>, <<228, 189>>} }
  \cup { TextEntry(<<>>, TestValue, "EtText", <<>>, <<>>) }

RoundTripTexts == UNION { [1..n -> RoundTripEntries] : n \in 0..MaxEntries }

\* times of whole seconds in UTC, a time with half a second, a time in a
\* zone one hour east of UTC, and a time whose year does not fit two bytes
RoundTripTimes ==
  { Time(2020, 2, 29, 23, 59, 59), Time(2021, 12, 31, 0, 0, 0),
    TimeAt(2020, 2, 29, 23, 59, 59, 500000000, 0),
    TimeAt(2021, 12, 31, 0, 0, 0, 0, 3600),
    Time(70000, 1, 1, 0, 0, 0) }

RoundTripChroma ==
  ChromaOf(19088743, 162254319, 1164413355, 1307508003,
           2023406814, 1880241238, 591751049, 734916353)

RoundTripGamma == 57005

Origs ==
  { Orig(t, tm, ch, g) :
      t \in RoundTripTexts,
      tm \in {None} \cup { Some(x) : x \in RoundTripTimes },
      ch \in {None, Some(RoundTripChroma)},
      g \in {None, Some(RoundTripGamma)} }

InitRoundTrip ==
  /\ InitRegistry
  /\ InitFields
  /\ InitNoDeferred
  /\ LastModified = None /\ Chroma = None
  /\ orig \in Origs
  /\ format = "png"
  /\ phase = "built"

NextRoundTrip ==
  \/ EncodeExtended
  \/ DecodeExtended
  \/ atChunk("cHRM") /\ parseCHRM(nextChunk)
  \/ atChunk("gAMA") /\ parseGAMA(nextChunk)
  \/ atChunk("tIME") /\ parseTIME(nextChunk)
  \/ atChunk("tEXt") /\ parseTEXT(nextChunk)
  \/ atChunk("zTXt") /\ parseZTXT(nextChunk)
  \/ atChunk("iTXt") /\ parseITXT(nextChunk)
  \/ atEnd /\ EndWalk

SpecRoundTrip == InitRoundTrip /\ [][NextRoundTrip]_vars

(* ---- package png: text and profile chunks with damaged separators ---- *)
\* payloads over a key byte, NUL and the byte 1, of every length from zero
\* a key and a value compressed into one stored block, and into one block of
\* the fixed Huffman kind
StoredBlob == <<75, 0, 1>> \o Deflate(<<86>>)
HuffmanBlob == <<75, 0, 1, 120, 156, 11, 3, 0, 0, 87, 0, 87>>

\* a payload without NUL that is one byte longer than the working buffer
LongBlob == Pad(tmpLen + 1, 75)

TextBlobs ==
  UNION { [1..n -> {0, 1, 75}] : n \in 0..MaxBlob } \cup { StoredBlob, HuffmanBlob, LongBlob }

InitText ==
  /\ InitRegistry
  /\ InitMetadata
  /\ format = "png"
  /\ phase = "walk"

NextText ==
  \/ nrec < MaxTexts /\ \E c \in Chunks(TextBlobs) : parseTEXT(c)
  \/ nrec < MaxTexts /\ \E c \in Chunks(TextBlobs) : parseZTXT(c)
  \/ nrec < MaxTexts /\ \E c \in Chunks(TextBlobs) : parseITXT(c)
  \/ nrec < MaxTexts /\ \E c \in Chunks(TextBlobs) : parseICCP(c)
  \/ EndWalk

SpecText == InitText /\ [][NextText]_vars

(* ---- package png: chunks with a wrong checksum, with and without damage tolerance ---- *)
DamageOptions == { <<>>, <<DamageHandling(FALSE)>>, <<DamageHandling(TRUE)>> }

\* one well-formed payload for each handler that stores a value
DamageTimes == { <<7, 228, 6, 15, 12, 30, 45>>, <<7, 229, 1, 2, 3, 4, 5>> }
DamageChroma == { chrmChunk(RoundTripChroma) }

InitDamage ==
  /\ InitRegistry
  /\ InitMetadata
  /\ format = "png"
  /\ phase = "start"

NextDamage ==
  \/ \E o \in DamageOptions : startDecode(o)
  \/ nrec < MaxDamaged /\ \E c \in Chunks(TextData) : parseTEXT(c)
  \/ nrec < MaxDamaged /\ \E c \in Chunks(DamageTimes) : parseTIME(c)
  \/ nrec < MaxDamaged /\ \E c \in Chunks(GamaData) : parseGAMA(c)
  \/ nrec < MaxDamaged /\ \E c \in Chunks(DamageChroma) : parseCHRM(c)
  \/ nrec < MaxDamaged /\ \E c \in Chunks(IccpData) : parseICCP(c)
  \/ skipDamaged
  \/ EndWalk

SpecDamage == InitDamage /\ [][NextDamage]_vars

(* ---- package png: singular chunks met more than once ---- *)
\* intact chunks with well-formed payloads
Intact(D) == { Chunk(d, FALSE, TRUE) : d \in D }

SingularGamma == { <<0, 0, 1, 2>>, <<0, 0, 177, 143>> }
SingularChroma ==
  { chrmChunk(RoundTripChroma),
    chrmChunk(ChromaOf(31270, 32900, 64000, 33000, 30000, 60000, 15000, 6000)) }
SingularIccp == { <<65, 0, 0, 7>>, <<66, 0, 0, 8>> }

InitSingular ==
  /\ InitRegistry
  /\ InitMetadata
  /\ format = "png"
  /\ phase = "walk"

NextSingular ==
  \/ nrec < MaxSingular /\ \E c \in Intact(DamageTimes) : parseTIME(c)
  \/ nrec < MaxSingular /\ \E c \in Intact(SingularGamma) : parseGAMA(c)
  \/ nrec < MaxSingular /\ \E c \in Intact(SingularChroma) : parseCHRM(c)
  \/ nrec < MaxSingular /\ \E c \in Intact(SingularIccp) : parseICCP(c)
  \/ EndWalk

SpecSingular == InitSingular /\ [][NextSingular]_vars

(* ---- profile, tag-table and packet records met in one walk ---- *)
\* "Exif" and the XMP namespace "http://ns.adobe.com/xap/1.0/"
exifTag == <<69, 120, 105, 102>>
xmpTag ==
  <<104, 116, 116, 112, 58, 47, 47, 110, 115, 46, 97, 100, 111, 98, 101, 46, 99, 111,
    109, 47, 120, 97, 112, 47, 49, 46, 48, 47>>

\* APP1 payloads tagged Exif (tag, NUL, pad byte, tag table) and XMP
\* (namespace, NUL, packet)
ExifSegments == { Segment(exifTag \o <<0, 0>> \o d, FALSE) : d \in { <<73, 73, 42, 0>>, <<77, 77, 0, 42>> } }
XmpSegments == { Segment(xmpTag \o <<0>> \o d, FALSE) : d \in { <<60, 120, 62>>, <<60, 63>> } }

\* iCCP payloads: two that fit the working buffer, and one a byte longer
\* than it
LongIccp == <<65, 0, 0>> \o Pad(tmpLen - 2, 7)
ProfileIccp == SingularIccp \cup { LongIccp }

\* ICC_PROFILE segments that are the only one of their profile
WholeIccSegments == { IccSegment(1, 1, <<7>>), IccSegment(1, 1, <<8, 9>>) }

InitProfiles ==
  /\ InitRegistry
  /\ InitMetadata
  /\ format \in {"png", "jpeg"}
  /\ phase = "walk"

NextProfiles ==
  \/ nrec < MaxProfiles /\ \E c \in Intact(ProfileIccp) : parseICCP(c)
  \/ nrec < MaxProfiles /\ \E s \in ExifSegments \cup XmpSegments \cup UnknownSegments : processApp1(s)
  \/ nrec < MaxProfiles /\ \E s \in WholeIccSegments : processApp2(s)
  \/ EndWalk
  \/ \E d \in {"decA"} : RegisterEXIFDecoder(d)

SpecProfiles == InitProfiles /\ [][NextProfiles]_vars

(* ---- package jpeg: APPn payloads of every length ---- *)
\* the first n bytes of b
Prefix(b, n) == SubSeq(b, 1, n)

\* a JFIF header with a 1x1 thumbnail, an ICC_PROFILE segment and an Adobe
\* segment, each complete
FullJfif == jfifMetadata \o <<0, 1, 2, 1, 0, 72, 0, 72, 1, 1, 10, 20, 30>>
FullIcc == iccMetadata \o <<0, 1, 1, 7>>
FullAdobe == adobeMetadata \o <<0, 100, 0, 0, 0, 0, 1>>

\* payloads without NUL, with the NUL last or second to last, and every
\* prefix of the three complete payloads
BoundsPayloads ==
  UNION { [1..n -> {0, 88}] : n \in 0..3 }
  \cup { Prefix(FullJfif, n) : n \in 0..Len(FullJfif) }
  \cup { Prefix(FullIcc, n) : n \in 0..Len(FullIcc) }
  \cup { Prefix(FullAdobe, n) : n \in 0..Len(FullAdobe) }

BoundsSegments == { Segment(b, FALSE) : b \in BoundsPayloads }

InitBounds ==
  /\ InitRegistry
  /\ InitMetadata
  /\ format = "jpeg"
  /\ phase = "walk"

NextBounds ==
  \/ nrec < MaxBoundsSegments /\ \E s \in BoundsSegments, t \in TmpBytes : processApp0(s, t)
  \/ nrec < MaxBoundsSegments /\ \E s \in BoundsSegments : processApp1(s)
  \/ nrec < MaxBoundsSegments /\ \E s \in BoundsSegments : processApp2(s)
  \/ nrec < MaxBoundsSegments /\ \E s \in BoundsSegments : processApp14(s)
  \/ EndWalk

SpecBounds == InitBounds /\ [][NextBounds]_vars

(* ---- one gif walk over comment and application extension blocks ---- *)
RECURSIVE SubBlocks(_)
\* data sub-blocks as they lie in the stream: each with its size byte
SubBlocks(subs) ==
  IF subs = <<>> THEN <<>> ELSE <<Len(Head(subs))>> \o Head(subs) \o SubBlocks(Tail(subs))

\* a comment extension after its label: the sub-blocks, the terminator and
\* the bytes that follow the extension in the stream
CommentStream(subs, rest) == SubBlocks(subs) \o <<0>> \o rest

\* no sub-block, "Hi" in one sub-block, "Hi" in two
CommentSubs == { <<>>, <<<<72, 105>>>>, <<<<72>>, <<105>>>> }

\* what follows the extension: nothing, the trailer, an empty block and the
\* trailer, a one-byte block
CommentRests == { <<>>, <<59>>, <<0, 59>>, <<1, 44>> }

InitComment ==
  /\ InitRegistry
  /\ InitMetadata
  /\ format = "gif"
  /\ phase = "walk"

NextComment ==
  \/ nrec < MaxCommentBlocks /\ \E subs \in CommentSubs, rest \in CommentRests :
       readComment(CommentStream(subs, rest))
  \/ nrec < MaxCommentBlocks /\ \E b \in GifBlocks : readApplication(b)
  \/ EndWalk

SpecComment == InitComment /\ [][NextComment]_vars

(* ---- package image: goroutines registering and sniffing at once ---- *)
\* streams the sniffing goroutines look at: one byte, the call number a
\* registration uses as its magic
SniffStreams == { <<i>> : i \in 1..2 }

InitConcurrent ==
  /\ InitRegistry
  /\ InitMetadata
  /\ format = "none"
  /\ phase = "load"

NextConcurrent ==
  \/ \E g \in Registrars : Lock(g)
  \/ \E g \in Registrars : Load(g)
  \/ \E g \in Registrars : Store(g)
  \/ \E g \in Registrars : Unlock(g)
  \/ \E g \in Sniffers : sniffLoad(g)
  \/ \E g \in Sniffers, data \in SniffStreams : sniffRange(g, data)

SpecConcurrent == InitConcurrent /\ [][NextConcurrent]_vars

(* ---- properties ---- *)
Last(q) == q[Len(q)]

\* C1: over any sequence of accessor calls on a field the registered decoder
\* runs at most once, and every accessor call after the first returns the
\* outcome (value and error) of the first.
C1_DecodeAtMostOnce ==
  /\ \A k \in Kinds : calls[k] <= 1
  /\ ret.op = "get" => firstRet[ret.kind] = Some([val |-> ret.val, err |-> ret.err])

\* a repeated accessor call on a field whose raw bytes a decoder has decoded
C1_Witness ==
  /\ ret.op = "get" /\ ret.again /\ ~ret.invoked
  /\ calls[ret.kind] = 1 /\ ret.val # None

\* C2: an accessor called on a field whose decode has failed returns the
\* cached error, the one the first call returned, and invokes no decoder, even
\* when a decoder for the kind has been registered since.
C2_FailedIsCached ==
  (ret.op = "get" /\ ret.pre = "Failed") =>
     /\ ret.val = None
     /\ ret.err # NilErr
     /\ ret.err = ErrOf(ret.kind)
     /\ ~ret.invoked
     /\ firstRet[ret.kind] = Some([val |-> None, err |-> ret.err])

\* the accessor found the cached "no decoder" error although a decoder is
\* registered by now
C2_Witness ==
  /\ ret.op = "get" /\ ret.pre = "Failed"
  /\ ret.err = NoDecoderErr(ret.kind)
  /\ DecoderOf(ret.kind) # NoFn

\* C3: when an accessor finds its field Raw and the decode fails, the field
\* holds the returned error and no raw bytes after the call.
C3_FailureDiscardsRaw ==
  (ret.op = "get" /\ ret.pre = "Raw" /\ ret.err # NilErr) =>
     /\ ErrOf(ret.kind) = ret.err
     /\ RawOf(ret.kind) = None

\* C4: no field holds raw bytes and a decoded value at the same time.
C4_NeverRawAndDecoded ==
  \A k \in Kinds : ~(RawOf(k) # None /\ ValOf(k) # None)

\* an accessor has decoded a Raw field
C4_Witness ==
  /\ ret.op = "get" /\ ret.pre = "Raw" /\ ret.invoked
  /\ ValOf(ret.kind) # None

\* C5 as stated: a Set call in any field state leaves the field Decoded with
\* the given value, without raw bytes and without cached error.
C5_SetLeavesDecoded ==
  ret.op = "set" =>
     /\ StateOf(ret.kind) = "Decoded"
     /\ ValOf(ret.kind) = ret.val
     /\ RawOf(ret.kind) = None
     /\ ErrOf(ret.kind) = NilErr

\* C5 amended: a Set call in any field state leaves the field holding the
\* given value, without raw bytes and without cached error: Decoded for a
\* non-nil value, Absent for nil; an accessor call that follows the Set call
\* returns that value with no error and invokes no decoder.
C5_SetOverwrites ==
  /\ [](ret.op = "set" =>
          /\ ValOf(ret.kind) = ret.val
          /\ RawOf(ret.kind) = None
          /\ ErrOf(ret.kind) = NilErr
          /\ StateOf(ret.kind) = IF ret.val = None THEN "Absent" ELSE "Decoded")
  /\ [][(ret.op = "set" /\ ret'.op = "get" /\ ret'.kind = ret.kind) =>
          /\ ret'.val = ret.val
          /\ ret'.err = NilErr
          /\ ~ret'.invoked]_vars

\* a Set call with a value on a field whose decode had failed
C5_Witness ==
  /\ ret.op = "set" /\ ret.pre = "Failed" /\ ret.val # None

\* C6: an accessor called on an Absent field returns no value and no error,
\* invokes no decoder and leaves the field Absent, whereas on a Raw field it
\* either invokes the decoder or reports that none is registered.
C6_AbsentStaysAbsent ==
  /\ (ret.op = "get" /\ ret.pre = "Absent") =>
        /\ ret.val = None /\ ret.err = NilErr /\ ~ret.invoked
        /\ StateOf(ret.kind) = "Absent"
  /\ (ret.op = "get" /\ ret.pre = "Raw") =>
        (ret.invoked \/ ret.err = NoDecoderErr(ret.kind))

\* an accessor call on an Absent field while a decoder of its kind is
\* registered
C6_Witness ==
  /\ ret.op = "get" /\ ret.pre = "Absent"
  /\ DecoderOf(ret.kind) # NoFn

\* C7: an accessor called on a Raw field whose kind has no registered decoder
\* returns the "no decoder registered" error and changes neither the
\* structural fields, nor the text entries, nor the other lazily decoded
\* fields of the Metadata.
C7_NoCodecIsLocal ==
  [][(ret' # ret /\ ret'.op = "get" /\ ret'.pre = "Raw" /\ DecoderOf(ret'.kind) = NoFn) =>
       /\ ret'.err = NoDecoderErr(ret'.kind)
       /\ ret'.val = None
       /\ ~ret'.invoked
       /\ UNCHANGED <<Text, Gamma, iccName, appX, format>>
       /\ ret'.kind # "exif" => UNCHANGED exifVars
       /\ ret'.kind # "xmp" => UNCHANGED xmpVars
       /\ ret'.kind # "icc" => UNCHANGED iccVars]_vars

\* the accessor of a Raw field reported the missing decoder in a Metadata
\* that holds a text entry and another field that is Raw or Decoded
C7_Witness ==
  /\ ret.op = "get" /\ ret.pre = "Raw"
  /\ ret.err = NoDecoderErr(ret.kind)
  /\ Text # <<>>
  /\ \E k \in Kinds \ {ret.kind} : StateOf(k) \in {"Raw", "Decoded"}

RegVar(n) ==
  CASE n = "exifDecoder" -> exifDecoder [] n = "xmpDecoder" -> xmpDecoder
    [] n = "iccDecoder" -> iccDecoder [] n = "exifEncoder" -> exifEncoder
    [] n = "xmpEncoder" -> xmpEncoder [] n = "iccEncoder" -> iccEncoder

RegNames ==
  {"exifDecoder", "xmpDecoder", "iccDecoder", "exifEncoder", "xmpEncoder", "iccEncoder"}

DecoderName(k) ==
  CASE k = "exif" -> "exifDecoder" [] k = "xmp" -> "xmpDecoder" [] k = "icc" -> "iccDecoder"

\* what a direct decode call returns when fn is the registered decoder
Expected(k, fn) ==
  IF fn = NoFn
  THEN [val |-> None, err |-> NoDecoderErr(k), invoked |-> FALSE]
  ELSE [val |-> ApplyDecoder(fn, <<1>>).val, err |-> ApplyDecoder(fn, <<1>>).err,
        invoked |-> TRUE]

\* C8: each of the six registered functions is the one most recently passed
\* to its own Register call, whatever was registered for the other kinds and
\* for the encoders, and a decode call of a kind returns what the most
\* recently registered decoder of that kind returns.
C8_LastRegistrationWins ==
  /\ [](\A n \in RegNames : RegVar(n) = lastReg[n])
  /\ [][(ret' # ret /\ ret'.op = "decode") =>
          LET e == Expected(ret'.kind, lastReg[DecoderName(ret'.kind)])
          IN ret'.val = e.val /\ ret'.err = e.err /\ ret'.invoked = e.invoked]_vars

\* a decode call returned the value of decB after an earlier decode call of
\* the same kind had returned something else, other functions being registered
C8_Witness ==
  /\ ret.op = "decode" /\ ret.again
  /\ ret.val # None /\ ret.val[1].by = "decB"
  /\ \E n \in RegNames \ {DecoderName(ret.kind)} : RegVar(n) # NoFn

\* the accepted ICC segments fed so far are exactly the segments 1..n of a
\* profile declared to have n segments, each once, in any order
Complete ==
  /\ fed # <<>>
  /\ LET n == fed[1].count
     IN /\ Len(fed) = n
        /\ \A j \in 1..Len(fed) : fed[j].count = n /\ fed[j].err = NilErr
        /\ \A i \in 1..n : \E j \in 1..Len(fed) : fed[j].index = i

\* payload of the segment of index i
PayloadOf(i) == fed[CHOOSE j \in 1..Len(fed) : fed[j].index = i].data

RECURSIVE InIndexOrder(_)
\* payload(1) \o ... \o payload(n)
InIndexOrder(n) == IF n = 0 THEN <<>> ELSE InIndexOrder(n - 1) \o PayloadOf(n)

\* C9: once every segment 1..n has arrived, in whatever order, the raw ICC
\* buffer is payload(1) followed by payload(2) ... payload(n).
C9_ConcatenatedByIndex ==
  (Complete /\ firstRet["icc"] = None) => Bytes(rawIcc) = InIndexOrder(fed[1].count)

\* C10: the recorded segment count is the one declared by the first ICC
\* segment of the walk, and a later ICC segment declaring another total is
\* rejected with the inconsistency error without extending the raw bytes.
C10_CountFixedByFirst ==
  /\ [](fed # <<>> => iccSegmentCount = fed[1].count)
  /\ [][(fed' # fed /\ fed # <<>> /\ Last(fed').count # fed[1].count) =>
          /\ Last(fed').err = "Invalid icc segment counts"
          /\ rawIcc' = rawIcc
          /\ iccSegmentsSeen' = iccSegmentsSeen]_vars

\* a second or later segment was rejected for its declared total while raw
\* bytes of earlier segments are held
C10_Witness ==
  /\ Len(fed) >= 2
  /\ Last(fed).err = "Invalid icc segment counts"
  /\ Last(fed).count # fed[1].count
  /\ rawIcc # None

\* number of ICC segments processApp2 has accepted so far
Accepted == Cardinality({ j \in 1..Len(fed) : fed[j].err = NilErr })

\* C11: an ICC segment fed after as many segments as the first one declared
\* have been accepted, and declaring the same total, is rejected with the
\* "too many segments" error, and its payload is not added to the raw bytes.
C11_OverflowRejected ==
  [][(fed' # fed /\ fed # <<>> /\ Accepted = fed[1].count
        /\ Last(fed').count = fed[1].count) =>
       /\ Last(fed').err = "Too many icc segments"
       /\ ret'.err = "Too many icc segments"
       /\ phase' = "failed"
       /\ rawIcc' = rawIcc]_vars

\* a third segment with a payload was rejected after the two declared
\* segments had been accepted
C11_Witness ==
  /\ Len(fed) = 3 /\ fed[1].count = 2
  /\ fed[1].err = NilErr /\ fed[2].err = NilErr
  /\ fed[3].err = "Too many icc segments" /\ fed[3].data # <<>>
  /\ rawIcc # None

\* C12: in every state of the walk, the state left by a rejected segment
\* included, the number of segments seen is at most the declared count.
C12_SeenAtMostDeclared ==
  iccSegmentsSeen <= iccSegmentCount

\* C13: while fewer ICC segments than declared have been seen, during the
\* walk or after it, the ICC field holds no raw bytes.
C13_NoPartialRaw ==
  iccSegmentsSeen < iccSegmentCount => rawIcc = None

\* tags the handler of marker m recognises
Recognised(m) ==
  CASE m = app0Marker -> {jfifMetadata}
    [] m = app2Marker -> {iccMetadata}
    [] m = app14Marker -> {adobeMetadata}
    [] OTHER -> {}

\* the tag of a payload: the bytes before its first NUL
Tag(buf) == IF IndexByte(buf, 0) = -1 THEN buf ELSE Slice(buf, 0, IndexByte(buf, 0))

RECURSIVE UnrecognisedOf(_, _)
\* payloads of the first n arrived segments that have marker m and a tag the
\* handler of m does not recognise, in arrival order
UnrecognisedOf(m, n) ==
  IF n = 0 THEN <<>>
  ELSE IF arrived[n].marker = m /\ Tag(arrived[n].buf) \notin Recognised(m)
       THEN Append(UnrecognisedOf(m, n - 1), arrived[n].buf)
       ELSE UnrecognisedOf(m, n - 1)

AppMarkers == app0Marker..app15Marker

\* C14: the list the extension store holds under each marker is exactly the
\* payloads of the segments of that marker whose tag no handler recognises,
\* in arrival order, repeated payloads kept as separate entries.
C14_AppXKeepsEveryUnknown ==
  /\ DOMAIN appX \subseteq AppMarkers
  /\ \A m \in AppMarkers :
        (IF m \in DOMAIN appX THEN appX[m] ELSE <<>>) = UnrecognisedOf(m, Len(arrived))

\* three segments have arrived: the same unrecognised payload twice under
\* one marker and a segment that is not stored under that marker
C14_Witness ==
  /\ Len(arrived) = 3
  /\ \E m \in DOMAIN appX :
        /\ Len(appX[m]) = 2 /\ appX[m][1] = appX[m][2]
        /\ \E j \in 1..3 : arrived[j].marker # m \/ Tag(arrived[j].buf) \in Recognised(m)

RECURSIVE BlocksOf(_, _)
\* the entries of the first n arrived application blocks that carry the
\* identifier id and are not the NETSCAPE looping extension, in arrival order
BlocksOf(id, n) ==
  IF n = 0 THEN <<>>
  ELSE IF blocks[n].appId = id /\ id # netscapeId
       THEN Append(BlocksOf(id, n - 1),
                   [AuthCode |-> blocks[n].AuthCode, Body |-> blocks[n].Body])
       ELSE BlocksOf(id, n - 1)

\* C15: the entries the GIF extension store keeps under an application
\* identifier are all the blocks that arrived with that identifier, in
\* arrival order; a later block neither replaces nor merges with an earlier.
C15_GifKeepsEveryBlock ==
  \A id \in {appIdA, appIdB, netscapeId} :
     (IF id \in DOMAIN Extensions THEN <<Extensions[id]>> ELSE <<>>) = BlocksOf(id, Len(blocks))

\* some key of the store is no application marker, or some stored payload is
\* longer than a segment can carry
StoreInvalid ==
  \E k \in DOMAIN appX :
     \/ k \notin app0Marker..app15Marker
     \/ \E i \in 1..Len(appX[k]) : Len(appX[k][i]) > maxSegmentSize

\* C16: validate returns an error exactly when some key of the extension
\* store lies outside APP0..APP15 or some stored payload is longer than the
\* maximum segment size, whatever the order the map is ranged over, and it
\* leaves the store as it was.
C16_ValidateIffInvalid ==
  [][(phase = "built" /\ phase' = "validated" /\ format = "jpeg") =>
       /\ (ret'.err # NilErr) <=> StoreInvalid
       /\ appX' = appX]_vars

\* validate reported an oversized entry of a store that also has a key
\* outside the range
C16_Witness ==
  /\ phase = "validated" /\ format = "jpeg"
  /\ ret.err = "Entry larger than maximum"
  /\ \E k \in DOMAIN appX : k \notin app0Marker..app15Marker

\* some text entry has a key that is empty, longer than 79 bytes, or holds
\* a NUL
TextInvalid ==
  \E i \in 1..Len(Text) :
     \/ Len(Text[i].Key) = 0
     \/ Len(Text[i].Key) > 79
     \/ \E j \in 1..Len(Text[i].Key) : Text[i].Key[j] = 0

\* C17: validateMetadata returns an error exactly when some text entry has
\* a key that is empty, longer than 79 bytes or contains a NUL, and it leaves
\* the text entries as they were.
C17_ValidateMetadataIffInvalid ==
  [][(phase = "built" /\ phase' = "validated" /\ format = "png") =>
       /\ (ret'.err # NilErr) <=> TextInvalid
       /\ Text' = Text]_vars

\* validateMetadata rejected a list whose first key is valid and of the
\* maximum length and whose second key holds a NUL
C17_Witness ==
  /\ phase = "validated" /\ format = "png"
  /\ ret.err = "text key contains a null"
  /\ Len(Text) = 2 /\ Len(Text[1].Key) = 79

\* the magic bytes m stand at the head of data: same length available, and
\* every byte equal unless the magic byte is '?'
MagicAtHead(m, data) ==
  /\ Len(m) <= Len(data)
  /\ \A i \in 1..Len(m) : m[i] = 63 \/ m[i] = data[i]

\* C19: sniff returns the earliest-registered format whose magic matches the
\* first len(magic) bytes of the stream ('?' matching any byte); formats with
\* a magic longer than the input are passed over, and the zero format is
\* returned only when no registered format matches.
C19_SniffEarliestMatch ==
  stream # None =>
    LET data == stream[1].data
        hits == { i \in 1..Len(atomicFormats) : MagicAtHead(atomicFormats[i].magic, data) }
    IN IF hits = {} THEN sniffed = NoFormat
       ELSE \E i \in hits :
              /\ \A j \in hits : i <= j
              /\ sniffed = atomicFormats[i]

\* an earlier format with a magic longer than the input was passed over, and
\* of two later matching formats the first was returned, through a wildcard
C19_Witness ==
  /\ stream # None /\ Len(atomicFormats) = 3
  /\ Len(atomicFormats[1].magic) > Len(stream[1].data)
  /\ sniffed = atomicFormats[2] /\ sniffed.magic = <<63, 2>>
  /\ atomicFormats[3].name # sniffed.name
  /\ MagicAtHead(atomicFormats[3].magic, stream[1].data)

\* C20: the entrypoint chosen by DecodeWithOptions reads the stream from
\* its first byte, whether the caller's reader has Peek or was wrapped.
C20_EntrypointReadsFromStart ==
  (stream # None /\ sniffed # NoFormat) => decoded = Some(stream[1].data)

\* a wrapped reader was sniffed with a two-byte magic and the entrypoint got
\* all three bytes
C20_Witness ==
  /\ stream # None /\ stream[1].wrapped /\ Len(sniffed.magic) = 2
  /\ decoded # None /\ Len(decoded[1]) = 3

\* an entrypoint has returned for input no registered magic matches
Unmatched == stream # None /\ sniffed = NoFormat

\* C21: for input that matches no registered magic every entrypoint returns
\* ErrFormat and invokes no decode function.
C21_UnknownFormatIsErrFormat ==
  Unmatched => (ret.err = "image: unknown format" /\ invocations = <<>>)

\* the entrypoint reached the function RegisterFormat built
ViaRegisterFormat ==
  stream # None /\ sniffed.decode \in {"wrapper", "wrapperNoConfig"}

\* two records of the list are of one kind
DuplicateKind(o) ==
  \E i, j \in 1..Len(o) : i < j /\ o[i].kind = o[j].kind

\* C22: a decode call whose option list holds two records of one kind is
\* rejected with ErrOption, and neither decode function is invoked.
C22_DuplicateKindRejected ==
  (ViaRegisterFormat /\ ret.op = "DecodeWithOptions" /\ DuplicateKind(options)) =>
     (ret.err = "image: invalid options" /\ invocations = <<>>)

\* C23: a decode call with no option record, or with a DataDecodeOptions of
\* two defaults, invokes the image decode function and neither fails with
\* ErrOption nor aborts.
C23_DefaultsDecodeImage ==
  (/\ ViaRegisterFormat /\ ret.op = "DecodeWithOptions"
   /\ options \in { <<>>, <<[kind |-> "DataDecodeOptions", DecodeImage |-> 0, DecodeMetadata |-> 0]>> }) =>
     (/\ \E i \in 1..Len(invocations) : invocations[i] = "decode"
      /\ ret.err \notin {"image: invalid options", "panic"})

\* the option list of the call holds a DataDecodeOptions that asks for a
\* deferred image body
DefersImage(o) ==
  \E i \in 1..Len(o) : o[i].kind = "DataDecodeOptions" /\ o[i].DecodeImage = DeferData

\* C24 as stated: every decode call on input of a registered format whose
\* DataDecodeOptions asks for a deferred image body is rejected with
\* ErrOption before a decode function is invoked.
C24_EveryDeferredImageRejected ==
  (stream # None /\ sniffed # NoFormat /\ DefersImage(options)) =>
     (ret.err = "image: invalid options" /\ invocations = <<>>)

\* C24: a decode call that reaches a format registered through RegisterFormat
\* with a DataDecodeOptions that asks for a deferred image body is rejected
\* with ErrOption before decode or decodeConfig is invoked, whatever the
\* metadata depth.
C24_DeferredImageRejected ==
  (/\ ViaRegisterFormat
   /\ \E i \in 1..Len(options) :
         options[i].kind = "DataDecodeOptions" /\ options[i].DecodeImage = 2) =>
     (ret.err = "image: invalid options" /\ invocations = <<>>)

\* a call with the single option {DeferData, DecodeData} was rejected
C24_Witness ==
  /\ ViaRegisterFormat /\ Len(options) = 1 /\ options[1].DecodeImage = 2
  /\ options[1].DecodeMetadata = 3 /\ sniffed.decode = "wrapper"
  /\ ret.err = "image: invalid options" /\ invocations = <<>>

\* C25: the cached chunks of one Deferred are parsed at most once over any
\* sequence of Instantiate, Bounds, At and ColorModel calls, whether the
\* first materialization succeeded or not.
C25_ParsedAtMostOnce == parsed <= 1

\* C27: a JFIF thumbnail is built exactly when both declared dimensions are
\* non-zero and width*height*3 bytes follow the header; with a zero
\* dimension the handler returns nil and builds nothing, and with any other
\* length it returns the size error and attaches nothing.
C27_ThumbnailOnlyWhenExact ==
  [][\A xt \in 0..2, yt \in 0..2, n \in 0..13, t \in {0, 1} :
       processApp0(JfifSegment(xt, yt, PixelBytes(n)), t) =>
         IF xt = 0 \/ yt = 0
         THEN ret'.err = NilErr /\ Thumbnail' = Thumbnail
         ELSE IF n = xt * yt * 3
         THEN /\ ret'.err = NilErr
              /\ Thumbnail' # None
              /\ DOMAIN Thumbnail'[1] = (0..(xt - 1)) \X (0..(yt - 1))
         ELSE ret'.err = "thumbnail size error" /\ Thumbnail' = Thumbnail]_vars

\* a segment declaring a 2x2 thumbnail was rejected for its length and no
\* thumbnail is attached
C27_Witness ==
  /\ XThumbnail = 2 /\ YThumbnail = 2 /\ jfif
  /\ ret.err = "thumbnail size error" /\ Thumbnail = None

\* the fields of a tIME payload lie in their ranges
TimeInRange(b) ==
  /\ b[3] \in 1..12
  /\ b[4] >= 1 /\ b[4] <= DaysIn(b[1] * 256 + b[2], b[3])
  /\ b[5] <= 23 /\ b[6] <= 59 /\ b[7] <= 60

\* C28: a tIME chunk with a field out of range is rejected with an error and
\* leaves LastModified as it was.
C28_BadTimeRejected ==
  [][\A c \in Chunks(TimeData) :
       (parseTIME(c) /\ ~c.short /\ Len(c.data) = 7 /\ ~TimeInRange(c.data)) =>
          (ret'.err # NilErr /\ LastModified' = LastModified)]_vars

\* C29: a text entry written and decoded comes back as exactly one entry with
\* the same key, value, storage mode, language tag and translated key, in each
\* of the three storage modes and with a non-empty value.
C29_TextRoundTrip == phase = "done" => Text = orig.Text

WholeSecondUTC(t) == t.nsec = 0 /\ t.zone = 0 /\ t.year \in 0..65535

RECURSIVE Nuls(_)
Nuls(b) == IF b = <<>> THEN 0 ELSE (IF Head(b) = 0 THEN 1 ELSE 0) + Nuls(Tail(b))

\* the payload has no NUL after the key
NoSeparator(b) == IndexByte(b, 0) = -1

\* the first NUL is the last byte: the storage-mode byte is missing
NoModeByte(b) == IndexByte(b, 0) # -1 /\ IndexByte(b, 0) = Len(b) - 1

\* after the key and the two compression bytes, the language tag or the
\* translated keyword has no terminator
NoItxtTerminators(b) ==
  LET sep == IndexByte(b, 0)
  IN sep # -1 /\ Nuls(Slice(b, IF sep + 3 > Len(b) THEN Len(b) ELSE sep + 3, Len(b))) < 2

\* the handler returned a format error and the text list is as it was
RejectedText == ret'.err \notin {NilErr, "panic"} /\ Text' = Text

\* C31: a tEXt, zTXt, iTXt or iCCP chunk with malformed separators (no NUL
\* after the key, a NUL that is the last byte so that the storage-mode byte
\* is missing, a missing language or translated-keyword terminator) is
\* rejected with a format error and adds no text entry, for every payload
\* length from zero.
C31_MalformedSeparatorsRejected ==
  [][\A c \in Chunks(TextBlobs) :
       ~c.short =>
         /\ (parseTEXT(c) /\ NoSeparator(c.data)) => RejectedText
         /\ (parseZTXT(c) /\ (NoSeparator(c.data) \/ NoModeByte(c.data))) => RejectedText
         /\ (parseICCP(c) /\ (NoSeparator(c.data) \/ NoModeByte(c.data))) => RejectedText
         /\ (parseITXT(c) /\ (NoSeparator(c.data) \/ NoModeByte(c.data)
                               \/ NoItxtTerminators(c.data))) => RejectedText]_vars
\* C32: a record whose stored integrity code does not match makes the decode
\* fail with an integrity error when damage tolerance is off; when it is on,
\* the record contributes nothing to the Metadata (no text entry, timestamp,
\* calibration value or raw profile) and the walk can go on.
C32_DamagedRecordSkipped ==
  [][ret'.err = "invalid checksum" =>
       IF SkipDamagedData(options)
       THEN /\ Text' = Text /\ LastModified' = LastModified /\ Gamma' = Gamma
            /\ Chroma' = Chroma /\ rawIcc' = rawIcc /\ iccName' = iccName
       ELSE phase' = "failed"]_vars
\* C33: within one walk, a second occurrence of a singular record (timestamp,
\* gamma, chromaticity, profile) is an error: the walk fails and the value
\* stored from the first occurrence is kept.
C33_SecondOccurrenceRejected ==
  [][/\ \A c \in Intact(DamageTimes) : (parseTIME(c) /\ LastModified # None) =>
           (phase' = "failed" /\ LastModified' = LastModified)
     /\ \A c \in Intact(SingularGamma) : (parseGAMA(c) /\ Gamma # None) =>
           (phase' = "failed" /\ Gamma' = Gamma)
     /\ \A c \in Intact(SingularChroma) : (parseCHRM(c) /\ Chroma # None) =>
           (phase' = "failed" /\ Chroma' = Chroma)
     /\ \A c \in Intact(SingularIccp) : (parseICCP(c) /\ rawIcc # None) =>
           (phase' = "failed" /\ rawIcc' = rawIcc)]_vars
\* C36: every profile, tag-table or packet record met during a walk leaves
\* the raw bytes of its field set, and no handler calls a sub-codec decoder:
\* a png iCCP chunk and a jpeg APP2 ICC_PROFILE segment make the ICC field
\* Raw, a jpeg APP1 segment tagged Exif or with the XMP namespace makes the
\* EXIF or XMP field Raw.
C36_RecordsLeaveFieldsRaw ==
  [][/\ \A c \in Intact(ProfileIccp) : parseICCP(c) => rawIcc' # None
     /\ \A s \in WholeIccSegments : processApp2(s) => rawIcc' # None
     /\ \A s \in ExifSegments : processApp1(s) => rawExif' # None
     /\ \A s \in XmpSegments : processApp1(s) => rawXmp' # None
     /\ calls' = calls]_vars
\* C38: for every payload length and content the APP0, APP1, APP2 and APP14
\* handlers return nil or an error and never index outside the payload.
C38_HandlersStayInPayload ==
  ~(phase = "panic" /\ ret.op \in {"processApp0", "processApp1", "processApp2", "processApp14"})
\* C40: in a thumbnail of width w and height h built from a JFIF segment,
\* the pixel at (x, y) has its red, green and blue values from the payload
\* bytes at offsets 3*(y*w+x), 3*(y*w+x)+1 and 3*(y*w+x)+2, so that distinct
\* pixels read disjoint triples and every byte is used once.
C40_PixelFromOwnTriple ==
  [][\A w \in 1..2, h \in 1..2, t \in {0, 1} :
       LET pix == PixelBytes(w * h * 3) IN
       processApp0(JfifSegment(w, h, pix), t) =>
         /\ Thumbnail' # None
         /\ \A x \in 0..(w - 1), y \in 0..(h - 1) :
              LET o == 3 * (y * w + x)
                  p == Thumbnail'[1][<<x, y>>]
              IN p[1] = At(pix, o) /\ p[2] = At(pix, o + 1) /\ p[3] = At(pix, o + 2)]_vars
\* C37: readComment on a comment extension of finitely many sub-blocks and a
\* terminator stops at the terminator, having read no byte after it, returns
\* no error and appends to Comments one entry, the sub-blocks joined in order.
C37_CommentReadToTerminator ==
  [][\A subs \in CommentSubs, rest \in CommentRests :
       readComment(CommentStream(subs, rest)) =>
         /\ ret'.err = NilErr
         /\ readOff' = Len(SubBlocks(subs)) + 1
         /\ Comments' = Append(Comments, Flatten(subs))]_vars
\* the calls of goroutine g whose Store has been done
stored(g) == registered[g] + (IF pc[g] = "unlock" THEN 1 ELSE 0)

\* the entries of list l that goroutine g registered
entriesOf(l, g) == SelectSeq(l, LAMBDA f : f.name = g)

\* s is l or a shorter list that l starts with
IsPrefix(s, l) == Len(s) <= Len(l) /\ SubSeq(l, 1, Len(s)) = s

\* C39: however the steps of concurrent RegisterFormatExtended and sniff
\* calls interleave, the list holds one entry per registration done, each
\* caller's entries in the order of its calls, and the list a sniff works on
\* is a prefix of the list as it is then and later.
C39_NoRegistrationLost ==
  /\ \A g \in Registrars :
       entriesOf(atomicFormats, g) = [i \in 1..stored(g) |-> formatOf(g, i)]
  /\ \A i \in 1..Len(atomicFormats) : atomicFormats[i].name \in Registrars
  /\ \A g \in Sniffers : pc[g] = "range" => IsPrefix(loaded[g], atomicFormats)

\* both goroutines have registered twice, their entries alternate in the
\* list, and a sniff is working on a list loaded before the last two
\* registrations
C39_Witness ==
  /\ \A g \in Registrars : pc[g] = "idle" /\ registered[g] >= 2
  /\ atomicFormats[1].name # atomicFormats[2].name
  /\ atomicFormats[2].name # atomicFormats[3].name
  /\ \E g \in Sniffers : pc[g] = "range" /\ Len(loaded[g]) = 2

====
